---- MODULE Spec2Model ----
(***************************************************************************)
(* MoodScale backend (src/backend/src/index.ts) and its MoodEntry schema   *)
(* (src/unnamed/part_000), modelled as a state machine.  One action per    *)
(* HTTP route handler; each action is the whole handler, from the parsed   *)
(* request body to the JSON response.                                      *)
(*                                                                         *)
(* Conventions                                                             *)
(*  - A JavaScript string is a sequence of one-character strings.          *)
(*  - An optional string is a record [some, s]; some = FALSE is undefined. *)
(*  - A number is an exact fraction [num, den] in lowest terms, den > 0;   *)
(*    floating-point rounding is not modelled.                             *)
(*  - A JSON value used as `mood` is a record [t, v]: t is its typeof and  *)
(*    v the number when t = "number".                                      *)
(*  - Time is counted in ticks since the epoch, TicksPerDay ticks per UTC  *)
(*    calendar day; tz is the server's local-minus-UTC offset in ticks.    *)
(*  - Store-assigned ids (ObjectIds) are the naturals 1, 2, ... in         *)
(*    creation order; an id is never reused.                               *)
(***************************************************************************)
EXTENDS Integers, Sequences, FiniteSets, TLC

VARIABLES
    store,      \* the MoodEntry collection, in insertion (natural) order
    nextId,     \* the next ObjectId the store will assign
    now,        \* the server clock, in ticks
    env,        \* process.env: which credentials are configured
    tz,         \* the server's timezone offset, in ticks
    req,        \* the request handled last
    resp,       \* the response sent last
    calls,      \* the store and network calls made while handling req
    prevIns,    \* the GET /api/insights response before lastIns, with the
                \* server's local day of the call, if no create or delete
                \* happened since
    lastIns,    \* the latest GET /api/insights response, with the server's
                \* local day of the call, if no create or delete happened
                \* since
    handlers,   \* the handlers that are followed await by await: for each
                \* handle the route, the call awaited and the log of calls
    ui          \* the state of the browser components and of their
                \* running event handlers

vars ==
    <<store, nextId, now, env, tz, req, resp, calls, prevIns, lastIns,
      handlers, ui>>

----------------------------------------------------------------------------
(* Bounds of the model *)

MaxEntries == 2         \* entries ever created in one behaviour of Spec
MaxNow == 1             \* the clock of Spec stops advancing at this tick
TicksPerDay == 2        \* clock resolution: ticks per calendar day
MaxTz == 1              \* timezone offsets are -MaxTz, 0 and MaxTz ticks
MaxInsEntries == 3      \* entries ever created in one behaviour of SpecInsights
MaxInsNow == 4          \* the clock of SpecInsights stops at this tick
MaxTracks == 3          \* longest manual track list
MaxListEntries == 52    \* entries ever created in one behaviour of SpecList
MaxListNow == 1         \* the clock of SpecList stops at this tick
MaxListDeletes == 2     \* SpecList deletes among the oldest ids 1..MaxListDeletes
MaxAiNow == 1           \* the clock of SpecAi stops at this tick
MaxNoteEntries == 2     \* entries ever created in one behaviour of SpecNotes
MaxDays == 32           \* SpecDays runs over this many calendar days
MaxUrlParts == 3        \* SpecExtract builds a spotifyUrl from up to this many parts
MaxHandlers == 2        \* requests followed await by await in SpecSteps
MaxDeleteEntries == 2   \* entries ever created in one behaviour of SpecDeletes
MaxTasks == 3           \* event handlers of the MoodTracker component in SpecTracker
MaxTrackerEntries == 2  \* entries ever created in one behaviour of SpecTracker
MaxJournalEntries == 2  \* entries ever created in one behaviour of SpecJournal
MaxMembers == 3         \* members of the JSON objects the AI answers with in SpecAnswers
MaxAnswerTracks == 6    \* tracks of the longest manual playlist in SpecAnswers
MaxRouteEntries == 2    \* entries ever created in one behaviour of SpecRoutes
MaxRouteNow == 1        \* the clock of SpecRoutes stops at this tick

----------------------------------------------------------------------------
(* Program constants *)

MoodMin == 0
MoodMax == 4
NoteMaxLength == 500
SongMaxLength == 200
ListLimit == 50
DailyRowsUnlimited == MaxDays * MaxDays
DailyRowsLimit == 30

----------------------------------------------------------------------------
(* Strings *)

Alnum ==
  {"a", "b", "c", "d", "e", "f", "g", "h", "i", "j", "k", "l", "m", "n",
    "o", "p", "q", "r", "s", "t", "u", "v", "w", "x", "y", "z", "A", "B",
    "C", "D", "E", "F", "G", "H", "I", "J", "K", "L", "M", "N", "O", "P",
    "Q", "R", "S", "T", "U", "V", "W", "X", "Y", "Z", "0", "1", "2", "3",
    "4", "5", "6", "7", "8", "9"}

Whitespace == {" ", "\t", "\n"}

RECURSIVE TrimStart(_)
TrimStart(s) ==
    IF s # <<>> /\ Head(s) \in Whitespace THEN TrimStart(Tail(s)) ELSE s

RECURSIVE TrimEnd(_)
TrimEnd(s) ==
    IF s # <<>> /\ s[Len(s)] \in Whitespace
    THEN TrimEnd(SubSeq(s, 1, Len(s) - 1))
    ELSE s

\* String.prototype.trim
Trim(s) == TrimEnd(TrimStart(s))

Undefined == [s |-> <<>>, some |-> FALSE]
Some(s) == [s |-> s, some |-> TRUE]

TrimKeepEmpty(x) ==
    IF ~x.some THEN Undefined ELSE Some(Trim(x.s))

\* `x?.trim() || undefined`: undefined stays undefined, and a string that
\* trims to "" is falsy and becomes undefined.
TrimOrUndefined(x) ==
    IF ~x.some THEN Undefined
    ELSE IF Trim(x.s) = <<>> THEN Undefined
    ELSE Some(Trim(x.s))

----------------------------------------------------------------------------
(* Numbers *)

RECURSIVE GCD(_, _)
GCD(a, b) == IF b = 0 THEN a ELSE GCD(b, a % b)

Abs(n) == IF n < 0 THEN -n ELSE n

\* The number n / d, d > 0, in lowest terms.
Q(n, d) ==
    LET g == GCD(Abs(n), d)
    IN  [num |-> n \div g, den |-> d \div g]

QAdd(a, b) == Q(a.num * b.den + b.num * a.den, a.den * b.den)
QDivInt(a, n) == Q(a.num, a.den * n)
QLess(a, b) == a.num * b.den < b.num * a.den
QInt(n) == Q(n, 1)

IsInteger(a) == a.den = 1

JNumber(a) == [t |-> "number", v |-> a]
JString == [t |-> "string", v |-> QInt(0)]
JUndefined == [t |-> "undefined", v |-> QInt(0)]

----------------------------------------------------------------------------
(* The MoodEntry schema and the record store *)

\* MoodEntrySchema: mood min/max, note and song maxlength.  The schema has
\* no integer validator for mood.
SchemaValid(doc) ==
    /\ ~QLess(doc.mood, QInt(MoodMin))
    /\ ~QLess(QInt(MoodMax), doc.mood)
    /\ doc.note.some => Len(doc.note.s) <= NoteMaxLength
    /\ doc.song.some => Len(doc.song.s) <= SongMaxLength

Range(f) == {f[i] : i \in DOMAIN f}

StoredIds == {e.id : e \in Range(store)}

WithoutUpTo(coll, id) == SelectSeq(coll, LAMBDA e : e.id > id)

\* The collection without the document whose _id is id.
Without(coll, id) == SelectSeq(coll, LAMBDA e : e.id # id)

\* sort({ timestamp: -1 }): a before b.  The store leaves the order of
\* documents with equal timestamps open; tie picks insertion order or its
\* reverse.
SortsBefore(a, b, tie) ==
    \/ a.timestamp > b.timestamp
    \/ /\ a.timestamp = b.timestamp
       /\ IF tie = "natural" THEN a.id < b.id ELSE a.id > b.id

\* MoodEntry.find().sort({ timestamp: -1 })
FindSorted(coll, tie) == SortSeq(coll, LAMBDA a, b : SortsBefore(a, b, tie))

LimitOffByOne(s, n) == SubSeq(s, 1, IF Len(s) < n + 1 THEN Len(s) ELSE n + 1)

\* .limit(n)
Limit(s, n) == SubSeq(s, 1, IF Len(s) < n THEN Len(s) ELSE n)

TieOrders == {"natural", "reverse"}

----------------------------------------------------------------------------
(* JSON.parse and the Markdown fence around an AI answer.  A text is a     *)
(* sequence of characters.  The parser covers objects, strings without     *)
(* escapes and unsigned whole numbers, which is all of JSON that can be    *)
(* written with the characters of AiChars.                                 *)

Digits == {"0", "1", "2", "3", "4", "5", "6", "7", "8", "9"}

DigitValue(c) ==
    CASE c = "0" -> 0 [] c = "1" -> 1 [] c = "2" -> 2 [] c = "3" -> 3
      [] c = "4" -> 4 [] c = "5" -> 5 [] c = "6" -> 6 [] c = "7" -> 7
      [] c = "8" -> 8 [] c = "9" -> 9

JsonWhitespace == {" ", "\t", "\n", "\r"}

\* Characters that cannot stand unescaped inside a JSON string.
NotInJsonString == {"\"", "\\", "\t", "\n", "\r"}

ParseFailed == [t |-> "none", v |-> 0, ok |-> FALSE, next |-> 0]
Parsed(t, v, next) == [t |-> t, v |-> v, ok |-> TRUE, next |-> next]

EmptyObject == [k \in {} |-> 0]

\* The index of the first character at or after i that is not whitespace.
RECURSIVE SkipWhitespace(_, _)
SkipWhitespace(s, i) ==
    IF i <= Len(s) /\ s[i] \in JsonWhitespace
    THEN SkipWhitespace(s, i + 1)
    ELSE i

\* The characters of a sequence joined into one string.
RECURSIVE Joined(_)
Joined(s) == IF s = <<>> THEN "" ELSE Head(s) \o Joined(Tail(s))

\* A string starts at i: its characters, up to the closing quote.
ParseString(s, i) ==
    LET closes == {j \in (i + 1)..Len(s) : s[j] = "\""}
    IN  IF i > Len(s) \/ s[i] # "\"" \/ closes = {}
        THEN ParseFailed
        ELSE LET j == CHOOSE c \in closes : \A d \in closes : c <= d
             IN  IF \E k \in (i + 1)..(j - 1) : s[k] \in NotInJsonString
                 THEN ParseFailed
                 ELSE Parsed("string", SubSeq(s, i + 1, j - 1), j + 1)

RECURSIVE DigitRunEnd(_, _)
DigitRunEnd(s, i) ==
    IF i + 1 <= Len(s) /\ s[i + 1] \in Digits
    THEN DigitRunEnd(s, i + 1)
    ELSE i

RECURSIVE DigitsValue(_)
DigitsValue(s) ==
    IF s = <<>> THEN 0
    ELSE 10 * DigitsValue(SubSeq(s, 1, Len(s) - 1)) + DigitValue(s[Len(s)])

\* A number starts at i; a leading zero ends the number.
ParseNumber(s, i) ==
    LET j == IF s[i] = "0" THEN i ELSE DigitRunEnd(s, i)
    IN  Parsed("number", DigitsValue(SubSeq(s, i, j)), j + 1)

RECURSIVE ParseValue(_, _)
RECURSIVE ParseMembers(_, _, _)

\* The members of an object from the key at i on; a repeated key keeps its
\* last value.
ParseMembers(s, i, members) ==
    LET key == ParseString(s, i)
        colon == SkipWhitespace(s, key.next)
    IN  IF ~key.ok \/ colon > Len(s) \/ s[colon] # ":"
        THEN ParseFailed
        ELSE LET value == ParseValue(s, colon + 1)
                 after == SkipWhitespace(s, value.next)
                 name == Joined(key.v)
                 extended ==
                     [k \in DOMAIN members \cup {name} |->
                         IF k = name THEN value.v ELSE members[k]]
             IN  IF ~value.ok \/ after > Len(s)
                 THEN ParseFailed
                 ELSE IF s[after] = "}"
                 THEN Parsed("object", extended, after + 1)
                 ELSE IF s[after] = ","
                 THEN ParseMembers(s, SkipWhitespace(s, after + 1), extended)
                 ELSE ParseFailed

\* The value that starts at or after i.
ParseValue(s, i) ==
    LET j == SkipWhitespace(s, i)
    IN  IF j > Len(s) THEN ParseFailed
        ELSE IF s[j] = "{"
        THEN LET k == SkipWhitespace(s, j + 1)
             IN  IF k <= Len(s) /\ s[k] = "}"
                 THEN Parsed("object", EmptyObject, k + 1)
                 ELSE ParseMembers(s, k, EmptyObject)
        ELSE IF s[j] = "\"" THEN ParseString(s, j)
        ELSE IF s[j] \in Digits THEN ParseNumber(s, j)
        ELSE ParseFailed

\* JSON.parse(text): one value and nothing but whitespace around it.
JsonParse(s) ==
    LET r == ParseValue(s, 1)
    IN  IF r.ok /\ SkipWhitespace(s, r.next) > Len(s) THEN r ELSE ParseFailed

\* The grave accent, the character of a Markdown fence.
Backtick == SubSeq("`'", 1, 1)

Fence == <<Backtick, Backtick, Backtick>>
JsonFence == Fence \o <<"j", "s", "o", "n">>

StartsWith(s, lit) == Len(lit) <= Len(s) /\ SubSeq(s, 1, Len(lit)) = lit
EndsWith(s, lit) ==
    Len(lit) <= Len(s) /\ SubSeq(s, Len(s) - Len(lit) + 1, Len(s)) = lit

\* The first replace: the opening fence with its tag and an optional
\* newline, in a text that starts with them.
WithoutOpeningFence(s) ==
    LET rest == SubSeq(s, Len(JsonFence) + 1, Len(s))
    IN  IF rest # <<>> /\ Head(rest) = "\n" THEN Tail(rest) ELSE rest

\* The second replace: an optional newline and the fence at the very end.
WithoutClosingFence(s) ==
    IF EndsWith(s, <<"\n">> \o Fence)
    THEN SubSeq(s, 1, Len(s) - Len(Fence) - 1)
    ELSE IF EndsWith(s, Fence)
    THEN SubSeq(s, 1, Len(s) - Len(Fence))
    ELSE s

\* responseText after trim() and the clean-up of the fence
StripFence(text) ==
    LET s == Trim(text)
    IN  IF StartsWith(s, JsonFence)
        THEN WithoutClosingFence(WithoutOpeningFence(s))
        ELSE s

\* JSON.parse(responseText) at the routes that clean the answer first
ParseAnswer(ai) == JsonParse(StripFence(ai.text))

----------------------------------------------------------------------------
(* The generative-AI gateway: model.generateContent(prompt) either throws  *)
(* or returns text.  parses says whether JSON.parse accepts the text as    *)
(* it is.                                                                  *)

AiThrows == [ok |-> FALSE, text |-> <<>>, parses |-> FALSE]
AiText(text) == [ok |-> TRUE, text |-> text, parses |-> JsonParse(text).ok]

PostAiOutcomes == { AiThrows, AiText(<<" ", "o", "k", "\n">>) }

AiOutcomes ==
    { AiThrows,
      AiText(<<" ", "o", "k", "\n">>),
      AiText(<<"{", "}">>) }

Null == [s |-> <<>>, some |-> FALSE]

NoHistory == [set |-> FALSE]

----------------------------------------------------------------------------
(* POST /api/moods *)

\* typeof mood !== "number" || mood < 0 || mood > 4
MoodRejected(mood) ==
    \/ mood.t # "number"
    \/ QLess(mood.v, QInt(MoodMin))
    \/ QLess(QInt(MoodMax), mood.v)

NewMoodEntry(mood, note, song) ==
    [mood |-> mood.v,
     note |-> TrimOrUndefined(note),
     song |-> TrimOrUndefined(song),
     id |-> nextId,
     timestamp |-> now]

\* aiInsight after the try/catch around generateContent
AiInsightOf(ai) ==
    IF env.gemini /\ ai.ok THEN Some(Trim(ai.text)) ELSE Null

PostMoodsResponseNoCatch(saved, ai) ==
    IF env.gemini /\ ~ai.ok
    THEN [route |-> "POST /api/moods", status |-> 500,
          body |-> [error |-> "Failed to create mood entry"]]
    ELSE [route |-> "POST /api/moods", status |-> 200,
          body |-> [entry |-> saved, aiInsight |-> AiInsightOf(ai)]]

PostMoodsResponse(saved, ai) ==
    [route |-> "POST /api/moods", status |-> 200,
     body |-> [entry |-> saved, aiInsight |-> AiInsightOf(ai)]]

PostMoods(mood, note, song, ai) ==
    /\ req' = [mood |-> mood, note |-> note, song |-> song,
               ai |-> ai, route |-> "POST /api/moods"]
    /\ IF MoodRejected(mood)
       THEN /\ resp' = [route |-> "POST /api/moods", status |-> 400,
                        body |-> [error |-> "Mood must be a number between 0 and 4"]]
            /\ calls' = <<>>
            /\ UNCHANGED <<store, nextId, prevIns, lastIns>>
       ELSE LET doc == NewMoodEntry(mood, note, song)
            IN  IF ~SchemaValid(doc)
                THEN \* save() rejects with a ValidationError: outer catch
                     /\ resp' = [route |-> "POST /api/moods", status |-> 500,
                                 body |-> [error |-> "Failed to create mood entry"]]
                     /\ calls' = <<"store.save">>
                     /\ UNCHANGED <<store, nextId, prevIns, lastIns>>
                ELSE /\ store' = Append(store, doc)
                     /\ nextId' = nextId + 1
                     /\ calls' = IF env.gemini
                                 THEN <<"store.save", "ai.generateContent">>
                                 ELSE <<"store.save">>
                     /\ resp' = PostMoodsResponse(doc, ai)
                     /\ prevIns' = NoHistory
                     /\ lastIns' = NoHistory
    /\ UNCHANGED <<now, env, tz, handlers, ui>>

----------------------------------------------------------------------------
(* GET /api/moods *)

GetMoods(tie) ==
    /\ req' = [tie |-> tie, route |-> "GET /api/moods"]
    /\ resp' = [route |-> "GET /api/moods", status |-> 200,
                body |-> Limit(FindSorted(store, tie), ListLimit)]
    /\ calls' = <<"store.find">>
    /\ UNCHANGED <<store, nextId, now, env, tz, prevIns,
                   lastIns, handlers, ui>>

----------------------------------------------------------------------------
(* DELETE /api/moods/:id *)

\* The :id path parameter.  kind "objectid" is a string that casts to an
\* ObjectId (n is the id it denotes); kind "malformed" is any other
\* non-empty string, for which findByIdAndDelete rejects with a CastError;
\* kind "empty" never reaches the handler, the router needs a segment.
ObjectIdParam(n) == [n |-> n, kind |-> "objectid"]
MalformedParam == [n |-> 0, kind |-> "malformed"]

FindById(coll, n) == CHOOSE e \in Range(coll) : e.id = n

DeleteMoodStatus(id) ==
    IF id.kind = "empty" THEN 400
    ELSE IF id.kind = "malformed" THEN 500
    ELSE IF id.n \notin StoredIds THEN 404
    ELSE 200

DeleteMood(id) ==
    /\ req' = [id |-> id, route |-> "DELETE /api/moods/:id"]
    /\ calls' = IF id.kind = "empty" THEN <<>> ELSE <<"store.findByIdAndDelete">>
    /\ IF DeleteMoodStatus(id) = 200
       THEN /\ store' = Without(store, id.n)
            /\ resp' = [route |-> "DELETE /api/moods/:id", status |-> 200,
                        body |-> [entry |-> FindById(store, id.n),
                                  message |-> "Mood entry deleted successfully"]]
            /\ prevIns' = NoHistory
            /\ lastIns' = NoHistory
       ELSE /\ resp' = [route |-> "DELETE /api/moods/:id",
                        status |-> DeleteMoodStatus(id),
                        body |-> [error |-> "not deleted"]]
            /\ UNCHANGED <<store, prevIns, lastIns>>
    /\ UNCHANGED <<nextId, now, env, tz, handlers, ui>>

----------------------------------------------------------------------------
(* GET /api/insights *)

\* entry.timestamp.toISOString().split("T")[0]: the UTC calendar date, as
\* the number of the day since the epoch.
DateKey(timestamp) == timestamp \div TicksPerDay

\* dailyMoods, a Map in insertion order: a sequence of [date, moods].
MapHas(map, key) == \E i \in DOMAIN map : map[i].date = key

MapPushAlwaysNew(map, key, mood) ==
    Append(map, [date |-> key, moods |-> <<mood>>])

MapPush(map, key, mood) ==
    LET m == IF MapHas(map, key) THEN map
             ELSE Append(map, [date |-> key, moods |-> <<>>])
    IN  [i \in DOMAIN m |->
            IF m[i].date = key
            THEN [date |-> key, moods |-> Append(m[i].moods, mood)]
            ELSE m[i]]

RECURSIVE GroupByDate(_, _)
GroupByDate(entries, map) ==
    IF entries = <<>> THEN map
    ELSE GroupByDate(Tail(entries),
                     MapPush(map, DateKey(Head(entries).timestamp),
                             Head(entries).mood))

RECURSIVE SumMoods(_)
SumMoods(moods) ==
    IF moods = <<>> THEN QInt(0) ELSE QAdd(Head(moods), SumMoods(Tail(moods)))

\* One row of dailyAverages
DailyRow(group) ==
    [date |-> group.date,
     averageMood |-> QDivInt(SumMoods(group.moods), Len(group.moods)),
     entryCount |-> Len(group.moods)]

\* Array.from(dailyMoods.entries()).map(...).sort(by date, descending)
DailyAverages(map) ==
    SortSeq([i \in DOMAIN map |-> DailyRow(map[i])],
            LAMBDA a, b : a.date > b.date)

\* The local calendar day of the server at instant t.
LocalDay(t) == (t + tz) \div TicksPerDay

LocalMidnightNoReset(t) == t

\* new Date(); setHours(0, 0, 0, 0): the instant of local midnight
LocalMidnight(t) == ((t + tz) \div TicksPerDay) * TicksPerDay - tz

\* new Date(dailyAverages[i].date): a date-only string parses as UTC midnight
EntryDate(date) == date * TicksPerDay

\* expectedDate.setDate(today.getDate() - i), i counted from 0
ExpectedDate(today, i) == today - i * TicksPerDay

\* The streak loop from index i (counted from 1) on.
RECURSIVE StreakFrom(_, _, _)
StreakFrom(rows, today, i) ==
    IF i > Len(rows) THEN 0
    ELSE IF EntryDate(rows[i].date) = ExpectedDate(today, i - 1)
         THEN 1 + StreakFrom(rows, today, i + 1)
         ELSE 0

Streak(rows) == StreakFrom(rows, LocalMidnight(now), 1)

RECURSIVE SumAverages(_)
SumAverages(rows) ==
    IF rows = <<>> THEN QInt(0)
    ELSE QAdd(Head(rows).averageMood, SumAverages(Tail(rows)))

RECURSIVE SumWeighted(_)
SumWeighted(rows) ==
    IF rows = <<>> THEN QInt(0)
    ELSE QAdd(Q(Head(rows).averageMood.num * Head(rows).entryCount,
                Head(rows).averageMood.den),
              SumWeighted(Tail(rows)))

RECURSIVE SumCounts(_)
SumCounts(rows) ==
    IF rows = <<>> THEN 0 ELSE Head(rows).entryCount + SumCounts(Tail(rows))

OverallAverageOfEntries(rows) == QDivInt(SumWeighted(rows), SumCounts(rows))

OverallAverage(rows) == QDivInt(SumAverages(rows), Len(rows))

\* Where the insights and recommendations strings come from.
InsightsSource(ai) ==
    IF env.gemini /\ ai.ok /\ ai.parses THEN "ai" ELSE "template"

\* q.toFixed(1) of a non-negative q, as the value of the printed decimal:
\* the nearest tenth, the larger one on a tie.
ToFixed1(q) == Q((20 * q.num + q.den) \div (2 * q.den), 10)

\* The insights of an empty store.
StartInsights ==
    << <<"Start tracking your mood to get personalized insights!">> >>

\* The two sentences the server writes itself.
TemplateInsights(average, days, streak) ==
    << <<"Your average daily mood is ", ToFixed1(average), "/4 across ",
         days, " days.">>,
       <<"You have a ", streak, "-day tracking streak!">> >>

\* aiResponse.insights || [] of the parsed text; the texts the gateway
\* returns here hold no insights key.
AiInsights(ai) == <<>>

InsightsOf(ai, average, days, streak) ==
    IF InsightsSource(ai) = "ai"
    THEN AiInsights(ai)
    ELSE TemplateInsights(average, days, streak)

InsightsBodySliceFirst(entries, ai) ==
    IF entries = <<>>
    THEN [averageMood |-> QInt(2), streak |-> 0, insights |-> StartInsights,
          totalDays |-> 0, dailyAverages |-> <<>>]
    ELSE LET rows == Limit(DailyAverages(GroupByDate(entries, <<>>)),
                           DailyRowsLimit)
         IN  [averageMood |-> OverallAverage(rows),
              streak |-> Streak(rows),
              insights |-> InsightsOf(ai, OverallAverage(rows), Len(rows),
                                      Streak(rows)),
              totalDays |-> Len(rows),
              dailyAverages |-> rows]

InsightsBody(entries, ai) ==
    IF entries = <<>>
    THEN [averageMood |-> QInt(2), streak |-> 0, insights |-> StartInsights,
          totalDays |-> 0, dailyAverages |-> <<>>]
    ELSE LET rows == DailyAverages(GroupByDate(entries, <<>>))
         IN  [averageMood |-> OverallAverage(rows),
              streak |-> Streak(rows),
              insights |-> InsightsOf(ai, OverallAverage(rows), Len(rows),
                                      Streak(rows)),
              totalDays |-> Len(rows),
              dailyAverages |-> Limit(rows, DailyRowsLimit)]

GetInsights(tie, ai) ==
    LET body == InsightsBody(FindSorted(store, tie), ai)
    IN  /\ req' = [ai |-> ai, route |-> "GET /api/insights"]
        /\ resp' = [route |-> "GET /api/insights", status |-> 200,
                    body |-> body]
        /\ calls' = IF store # <<>> /\ env.gemini
                    THEN <<"store.find", "ai.generateContent">>
                    ELSE <<"store.find">>
        /\ prevIns' = lastIns
        /\ lastIns' = [set |-> TRUE, body |-> body, day |-> LocalDay(now)]
        /\ UNCHANGED <<store, nextId, now, env, tz, handlers, ui>>

----------------------------------------------------------------------------
(* The music-catalog gateway *)

UriPrefix ==
    <<"s", "p", "o", "t", "i", "f", "y", ":", "p", "l", "a", "y", "l", "i",
      "s", "t", ":">>

WebPrefix ==
    <<"o", "p", "e", "n", ".", "s", "p", "o", "t", "i", "f", "y", ".", "c",
      "o", "m", "/", "p", "l", "a", "y", "l", "i", "s", "t", "/">>

MatchesAt(s, i, lit) ==
    /\ i + Len(lit) - 1 <= Len(s)
    /\ SubSeq(s, i, i + Len(lit) - 1) = lit

\* The end of the longest run of [a-zA-Z0-9] that starts at i (i - 1 when
\* s[i] is not in the class).
RECURSIVE AlnumRunEnd(_, _)
AlnumRunEnd(s, i) ==
    IF i <= Len(s) /\ s[i] \in Alnum THEN AlnumRunEnd(s, i + 1) ELSE i - 1

\* s.match(/lit([a-zA-Z0-9]+)/): the leftmost place where lit is followed
\* by at least one character of the class; the group is greedy.
MatchAfter(s, lit) ==
    LET hits == {i \in 1..Len(s) :
                    /\ MatchesAt(s, i, lit)
                    /\ AlnumRunEnd(s, i + Len(lit)) >= i + Len(lit)}
    IN  IF hits = {} THEN Null
        ELSE LET i == CHOOSE h \in hits : \A g \in hits : h <= g
             IN  Some(SubSeq(s, i + Len(lit), AlnumRunEnd(s, i + Len(lit))))

\* s.match(/^([a-zA-Z0-9]+)$/)
MatchBare(s) ==
    IF s # <<>> /\ \A i \in 1..Len(s) : s[i] \in Alnum THEN Some(s) ELSE Null

AnyAlnumRun(s) ==
    LET hits == {i \in 1..Len(s) : s[i] \in Alnum}
    IN  IF hits = {} THEN Null
        ELSE LET i == CHOOSE h \in hits : \A g \in hits : h <= g
             IN  Some(SubSeq(s, i, AlnumRunEnd(s, i)))

ExtractPlaylistIdUnanchored(s) ==
    LET uri == MatchAfter(s, UriPrefix)
        web == MatchAfter(s, WebPrefix)
    IN  IF uri.some THEN uri
        ELSE IF web.some THEN web
        ELSE AnyAlnumRun(s)

ExtractPlaylistIdWebFirst(s) ==
    LET uri == MatchAfter(s, UriPrefix)
        web == MatchAfter(s, WebPrefix)
    IN  IF web.some THEN web
        ELSE IF uri.some THEN uri
        ELSE MatchBare(s)

\* The three patterns in order; the first that matches gives the id.
ExtractPlaylistId(s) ==
    LET uri == MatchAfter(s, UriPrefix)
        web == MatchAfter(s, WebPrefix)
    IN  IF uri.some THEN uri
        ELSE IF web.some THEN web
        ELSE MatchBare(s)

\* getSpotifyAccessToken: null without credentials (no request is sent) or
\* when the token request fails.
TokenCalls == IF env.spotify THEN <<"spotify.token">> ELSE <<>>
AccessTokenObtained(token) == env.spotify /\ token = "ok"

\* getSpotifyPlaylistTracks: the playlist-info request, then the tracks
\* request; either may fail, and the function then throws.
CatalogCalls(catalog) ==
    IF catalog.info THEN <<"spotify.playlist", "spotify.tracks">>
    ELSE <<"spotify.playlist">>
CatalogFetched(catalog) == catalog.info /\ catalog.items

----------------------------------------------------------------------------
(* POST /api/playlist/analyze *)

\* `if (spotifyUrl)`: undefined and the empty string are falsy.
UrlGiven(url) == url.some /\ url.s # <<>>

\* tracks && Array.isArray(tracks) && tracks.length > 0
TracksGiven(tracks) == tracks.t = "array" /\ Len(tracks.items) > 0

ArtistsOf(tracks) == {tracks[i].artist : i \in DOMAIN tracks}

\* [...new Set(artists)]: each artist once, in the order of first appearance
UniqueArtists(tracks) ==
    LET firsts == {i \in DOMAIN tracks :
                      \A j \in 1..(i - 1) : tracks[j].artist # tracks[i].artist}
    IN  [k \in 1..Cardinality(firsts) |->
            tracks[CHOOSE i \in firsts :
                      Cardinality({j \in firsts : j < i}) = k - 1].artist]

\* The years of the tracks that have one.
YearsOf(tracks) == {tracks[i].year.n : i \in {j \in DOMAIN tracks : tracks[j].year.some}}

MinOf(S) == CHOOSE m \in S : \A x \in S : m <= x
MaxOf(S) == CHOOSE m \in S : \A x \in S : x <= m

YearRange(tracks) ==
    IF YearsOf(tracks) = {}
    THEN <<"Various">>
    ELSE <<MinOf(YearsOf(tracks)), " - ", MaxOf(YearsOf(tracks))>>

TopArtistsLimit == 5

PlaylistMetadata(name, total, tracks) ==
    LET unique == UniqueArtists(tracks)
    IN  [playlistName |-> name,
         totalTracks |-> total,
         analyzedTracks |-> Len(tracks),
         uniqueArtists |-> Len(unique),
         yearRange |-> YearRange(tracks),
         artistDiversity |->
             <<ToFixed1(Q(Len(unique) * 100, Len(tracks))), "%">>,
         topArtists |-> Limit(unique, TopArtistsLimit)]

\* The own keys that an object spread copies: the members of an object,
\* the characters of a string by position, nothing of a number.
Spread(parsed) ==
    IF parsed.t = "object" THEN parsed.v
    ELSE IF parsed.t = "string"
    THEN [k \in {ToString(i - 1) : i \in DOMAIN parsed.v} |->
             parsed.v[CHOOSE i \in DOMAIN parsed.v : ToString(i - 1) = k]]
    ELSE EmptyObject

EnhancedResponseAiWins(parsed, metadata) ==
    LET own == Spread(parsed)
    IN  [k \in DOMAIN own \cup {"playlistMetadata"} |->
            IF k \in DOMAIN own THEN own[k] ELSE metadata]

\* enhancedResponse: { ...aiResponse, playlistMetadata: {...} }
EnhancedResponse(parsed, metadata) ==
    LET own == Spread(parsed)
    IN  [k \in DOMAIN own \cup {"playlistMetadata"} |->
            IF k = "playlistMetadata" THEN metadata ELSE own[k]]

Failure(status, made, error) ==
    [calls |-> made, status |-> status, body |-> [error |-> error]]

AnalyzeTracksWithFallback(name, total, tracks, ai, before) ==
    IF Len(tracks) = 0
    THEN Failure(400, before, "No tracks found in the playlist.")
    ELSE IF ~env.gemini
    THEN Failure(500, before, "AI service not configured")
    ELSE IF ~ai.ok
    THEN Failure(500, Append(before, "ai.generateContent"),
                 "Failed to analyze playlist")
    ELSE [calls |-> Append(before, "ai.generateContent"), status |-> 200,
          body |-> EnhancedResponse(ParseAnswer(ai),
                                    PlaylistMetadata(name, total, tracks))]

\* From the obtained track list on: the AI call and its parse.
AnalyzeTracks(name, total, tracks, ai, before) ==
    IF Len(tracks) = 0
    THEN Failure(400, before, "No tracks found in the playlist.")
    ELSE IF ~env.gemini
    THEN Failure(500, before, "AI service not configured")
    ELSE IF ~ai.ok
    THEN Failure(500, Append(before, "ai.generateContent"),
                 "Failed to analyze playlist")
    ELSE IF ~ParseAnswer(ai).ok
    THEN Failure(500, Append(before, "ai.generateContent"),
                 "Failed to analyze playlist - invalid AI response format")
    ELSE [calls |-> Append(before, "ai.generateContent"), status |-> 200,
          body |-> EnhancedResponse(ParseAnswer(ai),
                                    PlaylistMetadata(name, total, tracks))]

PlaylistResultNoTokenCheck(url, tracks, token, catalog, ai) ==
    IF UrlGiven(url)
    THEN IF ~ExtractPlaylistId(url.s).some
         THEN Failure(400, <<>>, "Invalid Spotify URL")
         ELSE IF ~AccessTokenObtained(token) \/ ~CatalogFetched(catalog)
         THEN Failure(400, TokenCalls \o CatalogCalls(catalog),
                      "Failed to fetch playlist from Spotify")
         ELSE AnalyzeTracks(catalog.name, catalog.total, catalog.tracks, ai,
                            TokenCalls \o CatalogCalls(catalog))
    ELSE IF TracksGiven(tracks)
    THEN AnalyzeTracks("Manual Playlist", Len(tracks.items), tracks.items, ai, <<>>)
    ELSE Failure(400, <<>>,
                 "Please provide either a Spotify playlist URL or an array of tracks.")

PlaylistResult(url, tracks, token, catalog, ai) ==
    IF UrlGiven(url)
    THEN IF ~ExtractPlaylistId(url.s).some
         THEN Failure(400, <<>>, "Invalid Spotify URL")
         ELSE IF ~AccessTokenObtained(token)
         THEN Failure(500, TokenCalls, "Spotify integration not configured")
         ELSE IF ~CatalogFetched(catalog)
         THEN Failure(400, TokenCalls \o CatalogCalls(catalog),
                      "Failed to fetch playlist from Spotify")
         ELSE AnalyzeTracks(catalog.name, catalog.total, catalog.tracks, ai,
                            TokenCalls \o CatalogCalls(catalog))
    ELSE IF TracksGiven(tracks)
    THEN AnalyzeTracks("Manual Playlist", Len(tracks.items), tracks.items, ai, <<>>)
    ELSE Failure(400, <<>>,
                 "Please provide either a Spotify playlist URL or an array of tracks.")

PlaylistAnalyze(url, tracks, token, catalog, ai) ==
    LET r == PlaylistResult(url, tracks, token, catalog, ai)
    IN  /\ req' = [ai |-> ai, route |-> "POST /api/playlist/analyze",
                   token |-> token, catalog |-> catalog, tracks |-> tracks,
                   spotifyUrl |-> url]
        /\ resp' = [route |-> "POST /api/playlist/analyze",
                    status |-> r.status, body |-> r.body]
        /\ calls' = r.calls
        /\ UNCHANGED <<store, nextId, now, env, tz, prevIns,
                       lastIns, handlers, ui>>

----------------------------------------------------------------------------
(* GET /api/health *)

Health ==
    /\ req' = [route |-> "GET /api/health"]
    /\ resp' = [route |-> "GET /api/health", status |-> 200,
                body |-> [timestamp |-> now, status |-> "OK"]]
    /\ calls' = <<>>
    /\ UNCHANGED <<store, nextId, now, env, tz, prevIns,
                   lastIns, handlers, ui>>

----------------------------------------------------------------------------
(* POST /api/music/analyze *)

UnknownSong ==
    <<"U", "n", "k", "n", "o", "w", "n", " ", "S", "o", "n", "g">>

UnknownArtist ==
    <<"U", "n", "k", "n", "o", "w", "n", " ", "A", "r", "t", "i", "s", "t">>

Neutral ==
    <<"N", "e", "u", "t", "r", "a", "l">>

\* `x || fallback` for an optional string: undefined and "" are falsy.
OrDefault(x, fallback) == IF x.some /\ x.s # <<>> THEN x.s ELSE fallback

MoodPredictionOfNoEnvCheck(ai) ==
    IF ai.ok THEN Trim(ai.text) ELSE Neutral

\* moodPrediction after the try/catch around generateContent
MoodPredictionOf(ai) ==
    IF env.gemini /\ ai.ok THEN Trim(ai.text) ELSE Neutral

\* mockAnalysis; rnd holds the four Math.random() draws in call order.
MusicAnalysisOf(title, artist, rnd, ai) ==
    [artist |-> OrDefault(artist, UnknownArtist),
     title |-> OrDefault(title, UnknownSong),
     energy |-> rnd[1],
     valence |-> rnd[2],
     danceability |-> rnd[3],
     tempo |-> QAdd(QInt(120), Q(rnd[4].num * 60, rnd[4].den)),
     moodPrediction |-> MoodPredictionOf(ai)]

MusicAnalyze(title, artist, rnd, ai) ==
    /\ req' = [ai |-> ai, route |-> "POST /api/music/analyze",
               artist |-> artist, title |-> title, rnd |-> rnd]
    /\ resp' = [route |-> "POST /api/music/analyze", status |-> 200,
                body |-> MusicAnalysisOf(title, artist, rnd, ai)]
    /\ calls' = IF env.gemini THEN <<"ai.generateContent">> ELSE <<>>
    /\ UNCHANGED <<store, nextId, now, env, tz, prevIns,
                   lastIns, handlers, ui>>

----------------------------------------------------------------------------
(* POST /api/recommend-songs *)

\* mood >= 3
MoodAtLeast3(mood) == ~QLess(mood, QInt(3))

\* mood <= 2
MoodAtMost2(mood) == ~QLess(QInt(2), mood)

Recommendation(title, energy, moodMatch) ==
    [title |-> title, energy |-> energy, mood_match |-> moodMatch]

FallbackList(mood) ==
    << Recommendation("Here Comes the Sun", Q(38, 10), Q(40, 10)),
       Recommendation("Good as Hell", Q(45, 10),
                      IF MoodAtLeast3(mood) THEN Q(42, 10) ELSE Q(30, 10)),
       Recommendation("Weightless", Q(15, 10),
                      IF MoodAtMost2(mood) THEN Q(40, 10) ELSE Q(25, 10)) >>

FallbackRecommendationsNoSlice(mood) ==
    [recommendations |-> FallbackList(mood),
     playlist_vibe |-> IF MoodAtLeast3(mood)
                       THEN "Upbeat and energizing vibes"
                       ELSE "Calming and restorative atmosphere"]

\* fallbackRecommendations
FallbackRecommendations(mood) ==
    [recommendations |->
        SubSeq(FallbackList(mood), 1, IF MoodAtLeast3(mood) THEN 2 ELSE 3),
     playlist_vibe |-> IF MoodAtLeast3(mood)
                       THEN "Upbeat and energizing vibes"
                       ELSE "Calming and restorative atmosphere"]

Respond(status, made, body) == [calls |-> made, status |-> status, body |-> body]

RecommendResultCredentialFirst(mood, ai) ==
    IF ~env.gemini
    THEN Failure(500, <<>>, "AI service not configured")
    ELSE IF MoodRejected(mood)
    THEN Failure(400, <<>>, "Mood must be a number between 0 and 4")
    ELSE IF ~ai.ok
    THEN Failure(500, <<"ai.generateContent">>,
                 "Failed to generate song recommendations")
    ELSE IF ParseAnswer(ai).ok
    THEN Respond(200, <<"ai.generateContent">>, ParseAnswer(ai).v)
    ELSE Respond(200, <<"ai.generateContent">>, FallbackRecommendations(mood.v))

\* The handler, from the body to the response.  note, genre and
\* previousSongs only enter the prompt text.
RecommendResult(mood, ai) ==
    IF MoodRejected(mood)
    THEN Failure(400, <<>>, "Mood must be a number between 0 and 4")
    ELSE IF ~env.gemini
    THEN Failure(500, <<>>, "AI service not configured")
    ELSE IF ~ai.ok
    THEN \* generateContent is outside the inner try: outer catch
         Failure(500, <<"ai.generateContent">>,
                 "Failed to generate song recommendations")
    ELSE IF ParseAnswer(ai).ok
    THEN Respond(200, <<"ai.generateContent">>, ParseAnswer(ai).v)
    ELSE Respond(200, <<"ai.generateContent">>, FallbackRecommendations(mood.v))

RecommendSongs(mood, ai) ==
    LET r == RecommendResult(mood, ai)
    IN  /\ req' = [mood |-> mood, ai |-> ai,
                   route |-> "POST /api/recommend-songs"]
        /\ resp' = [route |-> "POST /api/recommend-songs",
                    status |-> r.status, body |-> r.body]
        /\ calls' = r.calls
        /\ UNCHANGED <<store, nextId, now, env, tz, prevIns,
                       lastIns, handlers, ui>>

----------------------------------------------------------------------------
(* Handlers followed await by await.  A handler runs until it awaits a     *)
(* call; when the call completes it runs on to its next await or to its    *)
(* response.  The log of a handler holds the start and the completion of   *)
(* each of its calls, in order.                                            *)

Started(call) == [call |-> call, ev |-> "start"]
Completed(call, ok) == [call |-> call, ev |-> IF ok THEN "ok" ELSE "fail"]

NoBody == [sent |-> FALSE]

\* The handler awaits call, after the events of log.
Awaiting(route, input, call, log) ==
    [route |-> route, status |-> 0, body |-> NoBody,
     input |-> input, log |-> Append(log, Started(call)), awaiting |-> call]

\* The handler has responded with body.
RespondedWith(route, input, status, log, body) ==
    [route |-> route, status |-> status, body |-> body, input |-> input,
     log |-> log, awaiting |-> "none"]

\* The handler has responded.
Responded(route, input, status, log) ==
    RespondedWith(route, input, status, log, NoBody)

IsAwaiting(h, route, call) ==
    /\ h \in DOMAIN handlers
    /\ handlers[h].route = route
    /\ handlers[h].awaiting = call

\* POST /api/moods up to `await newEntry.save()`
MoodsBegin(mood) ==
    /\ handlers' =
          Append(handlers,
                 IF MoodRejected(mood)
                 THEN Responded("POST /api/moods", Null, 400, <<>>)
                 ELSE Awaiting("POST /api/moods",
                               NewMoodEntry(mood, Undefined, Undefined),
                               "store.save", <<>>))
    /\ nextId' = IF MoodRejected(mood) THEN nextId ELSE nextId + 1
    /\ UNCHANGED <<store, now, env, tz, req, resp, calls, prevIns, lastIns, ui>>

\* save() completes: on success the handler goes on to the AI call, if the
\* AI is configured, and to the response otherwise.
MoodsSaved(h, ok) ==
    /\ IsAwaiting(h, "POST /api/moods", "store.save")
    /\ LET hd == handlers[h]
           log == Append(hd.log, Completed("store.save", ok))
       IN  /\ handlers' = [handlers EXCEPT ![h] =
                 IF ~ok THEN Responded(hd.route, hd.input, 500, log)
                 ELSE IF env.gemini
                 THEN Awaiting(hd.route, hd.input, "ai.generateContent", log)
                 ELSE Responded(hd.route, hd.input, 200, log)]
           /\ store' = IF ok THEN Append(store, hd.input) ELSE store
           /\ prevIns' = IF ok THEN NoHistory ELSE prevIns
           /\ lastIns' = IF ok THEN NoHistory ELSE lastIns
    /\ UNCHANGED <<nextId, now, env, tz, req, resp, calls, ui>>

\* generateContent completes or throws: the entry is returned either way.
MoodsInsight(h, ai) ==
    /\ IsAwaiting(h, "POST /api/moods", "ai.generateContent")
    /\ LET hd == handlers[h]
       IN  handlers' = [handlers EXCEPT ![h] =
              Responded(hd.route, hd.input, 200,
                        Append(hd.log, Completed("ai.generateContent", ai.ok)))]
    /\ UNCHANGED <<store, nextId, now, env, tz, req, resp, calls, prevIns,
                   lastIns, ui>>

\* POST /api/playlist/analyze with a spotifyUrl that yields an id, up to the
\* token request of getSpotifyAccessToken (none without credentials).
PlaylistBegin(url) ==
    /\ UrlGiven(url) /\ ExtractPlaylistId(url.s).some
    /\ handlers' =
          Append(handlers,
                 IF env.spotify
                 THEN Awaiting("POST /api/playlist/analyze", url,
                               "spotify.token", <<>>)
                 ELSE Responded("POST /api/playlist/analyze", url, 500, <<>>))
    /\ UNCHANGED <<store, nextId, now, env, tz, req, resp, calls, prevIns,
                   lastIns, ui>>

AfterCatalogCallNoCheck(hd, ok, n) ==
    LET log == Append(hd.log, Completed(hd.awaiting, ok))
    IN  IF hd.awaiting = "spotify.token"
        THEN Awaiting(hd.route, hd.input, "spotify.playlist", log)
        ELSE IF hd.awaiting = "spotify.playlist"
        THEN Awaiting(hd.route, hd.input, "spotify.tracks", log)
        ELSE IF ~env.gemini THEN Responded(hd.route, hd.input, 500, log)
        ELSE Awaiting(hd.route, hd.input, "ai.generateContent", log)

\* The handler after the catalog call it awaits completes.  n is the number
\* of named tracks in a tracks response.
AfterCatalogCall(hd, ok, n) ==
    LET log == Append(hd.log, Completed(hd.awaiting, ok))
    IN  IF hd.awaiting = "spotify.token"
        THEN IF ok THEN Awaiting(hd.route, hd.input, "spotify.playlist", log)
             ELSE Responded(hd.route, hd.input, 500, log)
        ELSE IF hd.awaiting = "spotify.playlist"
        THEN IF ok THEN Awaiting(hd.route, hd.input, "spotify.tracks", log)
             ELSE Responded(hd.route, hd.input, 400, log)
        ELSE IF ~ok \/ n = 0 THEN Responded(hd.route, hd.input, 400, log)
        ELSE IF ~env.gemini THEN Responded(hd.route, hd.input, 500, log)
        ELSE Awaiting(hd.route, hd.input, "ai.generateContent", log)

CatalogCalled(h, ok, n) ==
    /\ h \in DOMAIN handlers
    /\ handlers[h].route = "POST /api/playlist/analyze"
    /\ handlers[h].awaiting \in
          {"spotify.token", "spotify.playlist", "spotify.tracks"}
    /\ handlers' = [handlers EXCEPT ![h] = AfterCatalogCall(@, ok, n)]
    /\ UNCHANGED <<store, nextId, now, env, tz, req, resp, calls, prevIns,
                   lastIns, ui>>

PlaylistAnalyzed(h, ai) ==
    /\ IsAwaiting(h, "POST /api/playlist/analyze", "ai.generateContent")
    /\ LET hd == handlers[h]
       IN  handlers' = [handlers EXCEPT ![h] =
              Responded(hd.route, hd.input,
                        IF ai.ok /\ ParseAnswer(ai).ok THEN 200 ELSE 500,
                        Append(hd.log, Completed("ai.generateContent", ai.ok)))]
    /\ UNCHANGED <<store, nextId, now, env, tz, req, resp, calls, prevIns,
                   lastIns, ui>>

\* DELETE /api/moods/:id up to `await MoodEntry.findByIdAndDelete(id)`.
\* stored notes whether the entry was in the collection when the request
\* arrived; the handler does not read it.
DeleteBegin(id) ==
    /\ handlers' =
          Append(handlers,
                 IF id.kind = "empty"
                 THEN Responded("DELETE /api/moods/:id", id, 400, <<>>)
                 ELSE Awaiting("DELETE /api/moods/:id",
                               [id |-> id,
                                stored |-> id.kind = "objectid"
                                              /\ id.n \in StoredIds],
                               "store.findByIdAndDelete", <<>>))
    /\ UNCHANGED <<store, nextId, now, env, tz, req, resp, calls, prevIns,
                   lastIns, ui>>

AfterDeleteStaleFind(hd, ok) ==
    LET log == Append(hd.log, Completed(hd.awaiting, ok))
        id == hd.input.id
    IN  IF ~ok \/ id.kind = "malformed"
        THEN Responded(hd.route, hd.input, 500, log)
        ELSE IF ~hd.input.stored
        THEN Responded(hd.route, hd.input, 404, log)
        ELSE RespondedWith(hd.route, hd.input, 200, log,
                           [entry |-> [id |-> hd.input.id.n],
                            message |-> "Mood entry deleted successfully"])

\* The handler after findByIdAndDelete completes: the collection finds and
\* removes the document in one step and returns it, or null.
AfterDelete(hd, ok) ==
    LET log == Append(hd.log, Completed(hd.awaiting, ok))
        id == hd.input.id
    IN  IF ~ok \/ id.kind = "malformed"
        THEN Responded(hd.route, hd.input, 500, log)
        ELSE IF id.n \notin StoredIds
        THEN Responded(hd.route, hd.input, 404, log)
        ELSE RespondedWith(hd.route, hd.input, 200, log,
                           [entry |-> FindById(store, id.n),
                            message |-> "Mood entry deleted successfully"])

DeleteCompleted(h, ok) ==
    /\ IsAwaiting(h, "DELETE /api/moods/:id", "store.findByIdAndDelete")
    /\ handlers' = [handlers EXCEPT ![h] = AfterDelete(@, ok)]
    /\ LET id == handlers[h].input.id
           found == ok /\ id.kind = "objectid" /\ id.n \in StoredIds
       IN  /\ store' = IF found THEN Without(store, id.n) ELSE store
           /\ prevIns' = IF found THEN NoHistory ELSE prevIns
           /\ lastIns' = IF found THEN NoHistory ELSE lastIns
    /\ UNCHANGED <<nextId, now, env, tz, req, resp, calls, ui>>

----------------------------------------------------------------------------
(* The MoodTracker component.  ui holds its state and the event handlers   *)
(* that are running; each runs until it awaits a request.  A request is    *)
(* answered by the server in one step and its response reaches the         *)
(* component in a later step, so requests and responses of different       *)
(* handlers pass each other in every order.                                *)

\* selectedMood === null
NoMood == -1

\* A running event handler: what started it, the request it awaits, and
\* the number of its GET /api/moods among all that were issued (0: none
\* yet).  ok and body are the answer once the server has given it.
Task(kind, arg, call, seq) ==
    [ok |-> FALSE, body |-> <<>>, kind |-> kind, call |-> call,
     arg |-> arg, seq |-> seq, phase |-> "sent"]

\* The component mounts: the initial state, and the effect that calls
\* loadMoodEntries.
TrackerMount ==
    /\ ~ui.mounted
    /\ ui' = [mounted |-> TRUE,
              component |-> "MoodTracker",
              selectedMood |-> NoMood,
              moodEntries |-> <<>>,
              loading |-> FALSE,
              deletingIds |-> {},
              tasks |-> <<Task("mount", 0, "getMoods", 1)>>,
              issued |-> 1]
    /\ UNCHANGED <<store, nextId, now, env, tz, req, resp, calls, prevIns,
                   lastIns, handlers>>

\* A mood button is clicked.
SelectMood(mood) ==
    /\ ui.mounted
    /\ ui.selectedMood # mood
    /\ ui' = [ui EXCEPT !.selectedMood = mood]
    /\ UNCHANGED <<store, nextId, now, env, tz, req, resp, calls, prevIns,
                   lastIns, handlers>>

\* handleMoodSubmit up to `await moodAPI.createMood(...)`.  The button is
\* disabled while no mood is selected and while loading.
SubmitClick ==
    /\ ui.mounted
    /\ ui.selectedMood # NoMood
    /\ ~ui.loading
    /\ ui' = [ui EXCEPT
                !.loading = TRUE,
                !.tasks = Append(@, Task("submit", ui.selectedMood,
                                         "createMood", 0))]
    /\ UNCHANGED <<store, nextId, now, env, tz, req, resp, calls, prevIns,
                   lastIns, handlers>>

DisplayedIds == {ui.moodEntries[i].id : i \in DOMAIN ui.moodEntries}

\* handleDeleteMood, confirmed, up to `await moodAPI.deleteMood(entryId)`.
\* The button of an entry is disabled while its id is in deletingIds.
DeleteClick(id) ==
    /\ ui.mounted
    /\ id \in DisplayedIds
    /\ id \notin ui.deletingIds
    /\ ui' = [ui EXCEPT
                !.deletingIds = @ \cup {id},
                !.tasks = Append(@, Task("delete", id, "deleteMood", 0))]
    /\ UNCHANGED <<store, nextId, now, env, tz, req, resp, calls, prevIns,
                   lastIns, handlers>>

\* The server answers the request that task t awaits, or the request
\* fails on the way (~ok).
ServerAnswers(t, ok, tie) ==
    /\ ui.mounted
    /\ t \in DOMAIN ui.tasks
    /\ ui.tasks[t].phase = "sent"
    /\ LET task == ui.tasks[t]
           id == ObjectIdParam(task.arg)
           deleted == ok /\ task.call = "deleteMood"
                         /\ DeleteMoodStatus(id) = 200
           created == ok /\ task.call = "createMood"
           doc == NewMoodEntry(JNumber(QInt(task.arg)), Undefined, Undefined)
       IN  /\ ui' = [ui EXCEPT !.tasks[t] =
                 [task EXCEPT
                    !.phase = "answered",
                    !.ok = IF task.call = "deleteMood" THEN deleted ELSE ok,
                    !.body = IF ok /\ task.call = "getMoods"
                             THEN Limit(FindSorted(store, tie), ListLimit)
                             ELSE <<>>]]
           /\ store' = IF deleted THEN Without(store, task.arg)
                        ELSE IF created THEN Append(store, doc)
                        ELSE store
           /\ nextId' = IF created THEN nextId + 1 ELSE nextId
           /\ prevIns' = IF deleted \/ created THEN NoHistory ELSE prevIns
           /\ lastIns' = IF deleted \/ created THEN NoHistory ELSE lastIns
    /\ UNCHANGED <<now, env, tz, req, resp, calls, handlers>>

WithoutDeletingAll(ids, id) == {}

\* The update in the finally block of handleDeleteMood, applied to the
\* latest set.
WithoutDeleting(ids, id) == ids \ {id}

\* The handler of task t after loadMoodEntries has returned, or after its
\* first request failed: the rest of the try block and the finally block.
Finished(state, t) ==
    LET task == state.tasks[t]
    IN  [state EXCEPT
           !.tasks[t].phase = "done",
           !.selectedMood =
               IF task.kind = "submit" /\ task.call = "getMoods"
               THEN NoMood ELSE @,
           !.loading = IF task.kind = "submit" THEN FALSE ELSE @,
           !.deletingIds =
               IF task.kind = "delete" THEN WithoutDeleting(@, task.arg)
               ELSE @]

\* The response to the request of task t reaches the component.  After
\* createMood and deleteMood the handler calls loadMoodEntries, which
\* issues the next GET /api/moods; loadMoodEntries sets moodEntries and
\* catches its own failure.
ClientReceives(t) ==
    /\ ui.mounted
    /\ t \in DOMAIN ui.tasks
    /\ ui.tasks[t].phase = "answered"
    /\ LET task == ui.tasks[t]
       IN  ui' =
             IF task.call = "getMoods"
             THEN Finished([ui EXCEPT !.moodEntries =
                               IF task.ok THEN task.body ELSE @], t)
             ELSE IF task.ok
             THEN [ui EXCEPT
                     !.issued = @ + 1,
                     !.tasks[t] = Task(task.kind, task.arg, "getMoods",
                                       ui.issued + 1)]
             ELSE Finished(ui, t)
    /\ UNCHANGED <<store, nextId, now, env, tz, req, resp, calls, prevIns,
                   lastIns, handlers>>

----------------------------------------------------------------------------
(* The MoodJournal component.  Its submit button is disabled while         *)
(* submitting or loading, so one handleSubmit runs at a time; submit holds *)
(* the request it awaits and the mood and note of the render it was        *)
(* started from.                                                           *)

\* The error and the recommendations of the component before anything was
\* set (null in the source).
NoError == ""
NoRecommendations == [shown |-> FALSE]
Shown(songRecs) == [shown |-> TRUE, songRecs |-> songRecs]

Idle == [mood |-> 0, note |-> <<>>, ok |-> FALSE, body |-> <<>>,
         phase |-> "idle"]

\* The component mounts: the initial state, and the effect that calls
\* loadRecentEntries.
JournalMount ==
    /\ ~ui.mounted
    /\ ui' = [note |-> <<>>,
              error |-> NoError,
              recommendations |-> NoRecommendations,
              mounted |-> TRUE,
              component |-> "MoodJournal",
              selectedMood |-> 2,
              loading |-> FALSE,
              recentEntries |-> <<>>,
              submitting |-> FALSE,
              submit |-> Idle,
              mountLoad |-> [ok |-> FALSE, body |-> <<>>, phase |-> "sent"]]
    /\ UNCHANGED <<store, nextId, now, env, tz, req, resp, calls, prevIns,
                   lastIns, handlers>>

\* The user picks a mood of the scale.
JournalSelectMood(mood) ==
    /\ ui.mounted
    /\ ui.selectedMood # mood
    /\ ui' = [ui EXCEPT !.selectedMood = mood]
    /\ UNCHANGED <<store, nextId, now, env, tz, req, resp, calls, prevIns,
                   lastIns, handlers>>

\* The user edits the note.
TypeNote(text) ==
    /\ ui.mounted
    /\ ui.note # text
    /\ ui' = [ui EXCEPT !.note = text]
    /\ UNCHANGED <<store, nextId, now, env, tz, req, resp, calls, prevIns,
                   lastIns, handlers>>

\* handleSubmit up to `await moodAPI.createMood(...)`, or to its early
\* return for a blank note.
JournalSubmitClick ==
    /\ ui.mounted
    /\ ~ui.submitting /\ ~ui.loading
    /\ ui' = IF Trim(ui.note) = <<>>
             THEN [ui EXCEPT !.error =
                       "Please write something about your mood"]
             ELSE [ui EXCEPT
                     !.submitting = TRUE,
                     !.error = NoError,
                     !.submit = [mood |-> ui.selectedMood,
                                 note |-> Trim(ui.note),
                                 ok |-> FALSE,
                                 body |-> <<>>, phase |-> "createMood sent"]]
    /\ UNCHANGED <<store, nextId, now, env, tz, req, resp, calls, prevIns,
                   lastIns, handlers>>

\* POST /api/moods is answered, or fails on the way (~ok).
JournalCreateAnswered(ok) ==
    /\ ui.mounted
    /\ ui.submit.phase = "createMood sent"
    /\ LET doc == NewMoodEntry(JNumber(QInt(ui.submit.mood)),
                               Some(ui.submit.note), Undefined)
           saved == ok /\ SchemaValid(doc)
       IN  /\ ui' = [ui EXCEPT !.submit.phase = "createMood answered",
                               !.submit.ok = saved]
           /\ store' = IF saved THEN Append(store, doc) ELSE store
           /\ nextId' = IF saved THEN nextId + 1 ELSE nextId
           /\ prevIns' = IF saved THEN NoHistory ELSE prevIns
           /\ lastIns' = IF saved THEN NoHistory ELSE lastIns
    /\ UNCHANGED <<now, env, tz, req, resp, calls, handlers>>

JournalFailedClearsNote(state) ==
    [state EXCEPT
       !.note = <<>>,
       !.error = "Failed to save mood entry or get recommendations",
       !.submitting = FALSE,
       !.loading = FALSE,
       !.submit = Idle]

\* The catch block and the finally block of handleSubmit.
JournalFailed(state) ==
    [state EXCEPT
       !.error = "Failed to save mood entry or get recommendations",
       !.submitting = FALSE,
       !.loading = FALSE,
       !.submit = Idle]

\* handleSubmit after createMood: on to the recommendations, or to the
\* catch block.
JournalAfterCreate ==
    /\ ui.mounted
    /\ ui.submit.phase = "createMood answered"
    /\ ui' = IF ui.submit.ok
             THEN [ui EXCEPT !.loading = TRUE,
                             !.submit.phase = "getSongRecommendations sent",
                             !.submit.ok = FALSE]
             ELSE JournalFailed(ui)
    /\ UNCHANGED <<store, nextId, now, env, tz, req, resp, calls, prevIns,
                   lastIns, handlers>>

\* POST /api/recommend-songs is answered, or fails on the way (~ok).  A
\* status other than 2xx makes the request function throw.
JournalRecommendAnswered(ok, ai) ==
    /\ ui.mounted
    /\ ui.submit.phase = "getSongRecommendations sent"
    /\ LET r == RecommendResult(JNumber(QInt(ui.submit.mood)), ai)
       IN  ui' = [ui EXCEPT
                    !.submit.phase = "getSongRecommendations answered",
                    !.submit.ok = ok /\ r.status = 200,
                    !.submit.body = IF ok /\ r.status = 200
                                    THEN r.body ELSE <<>>]
    /\ UNCHANGED <<store, nextId, now, env, tz, req, resp, calls, prevIns,
                   lastIns, handlers>>

\* handleSubmit after getSongRecommendations: the recommendations are
\* shown, the form is cleared and the recent entries are reloaded; a
\* response without a recommendations list throws at `.map`.
JournalAfterRecommend ==
    /\ ui.mounted
    /\ ui.submit.phase = "getSongRecommendations answered"
    /\ ui' = IF ~ui.submit.ok
             THEN JournalFailed(ui)
             ELSE IF "recommendations" \notin DOMAIN ui.submit.body
             THEN JournalFailed(
                      [ui EXCEPT !.recommendations = Shown(ui.submit.body)])
             ELSE [ui EXCEPT
                     !.recommendations = Shown(ui.submit.body),
                     !.note = <<>>,
                     !.submit.phase = "getMoods sent",
                     !.submit.ok = FALSE,
                     !.submit.body = <<>>]
    /\ UNCHANGED <<store, nextId, now, env, tz, req, resp, calls, prevIns,
                   lastIns, handlers>>

RecentEntriesLimit == 5

\* GET /api/moods of loadRecentEntries is answered, for the effect
\* ("mount") or for handleSubmit ("submit").
JournalListAnswered(which, ok, tie) ==
    /\ ui.mounted
    /\ LET body == IF ok THEN Limit(FindSorted(store, tie), ListLimit)
                   ELSE <<>>
       IN  IF which = "mount"
           THEN /\ ui.mountLoad.phase = "sent"
                /\ ui' = [ui EXCEPT !.mountLoad =
                              [ok |-> ok, body |-> body, phase |-> "answered"]]
           ELSE /\ ui.submit.phase = "getMoods sent"
                /\ ui' = [ui EXCEPT !.submit.phase = "getMoods answered",
                                    !.submit.ok = ok,
                                    !.submit.body = body]
    /\ UNCHANGED <<store, nextId, now, env, tz, req, resp, calls, prevIns,
                   lastIns, handlers>>

\* loadRecentEntries after its await; in handleSubmit the finally block
\* follows.
JournalAfterList(which) ==
    /\ ui.mounted
    /\ IF which = "mount"
       THEN /\ ui.mountLoad.phase = "answered"
            /\ ui' = [ui EXCEPT
                        !.recentEntries =
                            IF ui.mountLoad.ok
                            THEN Limit(ui.mountLoad.body, RecentEntriesLimit)
                            ELSE @,
                        !.mountLoad.phase = "done"]
       ELSE /\ ui.submit.phase = "getMoods answered"
            /\ ui' = [ui EXCEPT
                        !.recentEntries =
                            IF ui.submit.ok
                            THEN Limit(ui.submit.body, RecentEntriesLimit)
                            ELSE @,
                        !.submitting = FALSE,
                        !.loading = FALSE,
                        !.submit = Idle]
    /\ UNCHANGED <<store, nextId, now, env, tz, req, resp, calls, prevIns,
                   lastIns, handlers>>

----------------------------------------------------------------------------
(* The server clock *)

Tick(max) ==
    /\ now < max
    /\ now' = now + 1
    /\ UNCHANGED <<store, nextId, env, tz, req, resp,
                   calls, prevIns, lastIns, handlers, ui>>

----------------------------------------------------------------------------
(* Inputs *)

MoodInputs ==
    { JNumber(Q(-1, 1)), JNumber(Q(0, 1)), JNumber(Q(5, 2)),
      JNumber(Q(4, 1)), JNumber(Q(5, 1)), JString, JUndefined }

NoteInputs == { Undefined, Some(<<" ", "h", "i", " ">>) }
SongInputs == { Undefined }

\* A string of n copies of the character c
Repeat(c, n) == [i \in 1..n |-> c]

\* Notes around the maxlength of the schema, bare and wrapped in whitespace
NoteCases ==
    { Undefined, Some(<<>>), Some(<<" ", "\n">>), Some(<<" ", "h", "i", " ">>),
      Some(<<" ">> \o Repeat("x", NoteMaxLength) \o <<"\n">>),
      Some(Repeat("x", NoteMaxLength + 1)) }

SongCases ==
    { Undefined, Some(<<"\t">>),
      Some(<<" ">> \o Repeat("s", SongMaxLength)),
      Some(Repeat("s", SongMaxLength + 1) \o <<" ">>) }

DeleteIdInputs == {ObjectIdParam(n) : n \in 1..(MaxEntries + 1)} \cup {MalformedParam}

UrlEmpty ==
    <<>>

UrlUri ==
    <<"s", "p", "o", "t", "i", "f", "y", ":", "p", "l", "a", "y", "l", "i",
      "s", "t", ":", "a", "1">>

UrlWeb ==
    <<"h", "t", "t", "p", "s", ":", "/", "/", "o", "p", "e", "n", ".", "s",
      "p", "o", "t", "i", "f", "y", ".", "c", "o", "m", "/", "p", "l", "a",
      "y", "l", "i", "s", "t", "/", "Z", "z", "9", "?", "s", "i", "=", "1">>

UrlBare ==
    <<"a", "1", "B">>

UrlDash ==
    <<"a", "-", "b">>

UrlUriNoId ==
    <<"s", "p", "o", "t", "i", "f", "y", ":", "p", "l", "a", "y", "l", "i",
      "s", "t", ":">>

UrlAlbum ==
    <<"o", "p", "e", "n", ".", "s", "p", "o", "t", "i", "f", "y", ".", "c",
      "o", "m", "/", "a", "l", "b", "u", "m", "/", "x", "1">>

\* The parts a spotifyUrl of SpecExtract is built from: the two literal
\* prefixes, a run of [a-zA-Z0-9] and a character outside the class.
UrlParts == { UriPrefix, WebPrefix, <<"Z", "9">>, <<"-">> }

RECURSIVE Concat(_)
Concat(parts) ==
    IF parts = <<>> THEN <<>> ELSE Head(parts) \o Concat(Tail(parts))

BuiltUrls ==
    { Concat(parts) :
        parts \in UNION {[1..n -> UrlParts] : n \in 1..MaxUrlParts} }

UrlInputs ==
    {Undefined} \cup
    {Some(u) : u \in {UrlEmpty, UrlUri, UrlWeb, UrlBare, UrlDash, UrlUriNoId, UrlAlbum}}

\* The year of a track is optional.
NoYear == [some |-> FALSE, n |-> 0]
Year(n) == [some |-> TRUE, n |-> n]

TrackOf(title, artist, year) ==
    [artist |-> artist, year |-> year, title |-> title]
Track(title, artist) == TrackOf(title, artist, NoYear)

TrackList(n) == [i \in 1..n |-> Track(<<"t", i>>, IF i = 1 THEN "a" ELSE "b")]

JArray(items) == [t |-> "array", items |-> items]
NotAnArray(t) == [t |-> t, items |-> <<>>]

TracksInputs ==
    {NotAnArray("undefined"), NotAnArray("string")}
        \cup {JArray(TrackList(n)) : n \in 0..MaxTracks}

Catalog(info, items, n, total) ==
    [name |-> "p", info |-> info, items |-> items, tracks |-> TrackList(n),
     total |-> total]

\* What the upstream services do when they are called: the token request,
\* the two catalog requests and the AI call.
Upstream(token, catalog, ai) == [ai |-> ai, token |-> token, catalog |-> catalog]

\* The catalog is not bound by the `limit` parameter of the request, and the
\* playlist may grow between the playlist-info request and the tracks
\* request: more items than the limit, and more items than the reported
\* total.
OversizedCatalogs ==
    { Catalog(TRUE, TRUE, ListLimit + 1, ListLimit + 2),
      Catalog(TRUE, TRUE, MaxTracks, 2) }

Upstreams ==
    { Upstream("fail", Catalog(FALSE, FALSE, 0, 0), AiThrows),
      Upstream("ok", Catalog(FALSE, FALSE, 0, 0), AiThrows),
      Upstream("ok", Catalog(TRUE, FALSE, 0, 0), AiThrows),
      Upstream("ok", Catalog(TRUE, TRUE, 0, 0), AiThrows) }
        \cup {Upstream("ok", Catalog(TRUE, TRUE, 2, 2), ai) : ai \in AiOutcomes}
        \cup {Upstream("ok", c, AiText(<<"{", "}">>)) : c \in OversizedCatalogs}

TitleInputs == { Undefined, Some(<<>>), Some(<<"H", "i">>) }
ArtistInputs == { Undefined, Some(<<"A">>) }

\* Math.random() returns a number in [0, 1)
RandomDraws ==
    { <<Q(0, 1), Q(0, 1), Q(0, 1), Q(0, 1)>>,
      <<Q(1, 2), Q(1, 4), Q(3, 4), Q(1, 2)>> }

Envs == [gemini : BOOLEAN, spotify : BOOLEAN]
TzOffsets == {-MaxTz, 0, MaxTz}

NoRequest == [route |-> "none"]

\* No component is mounted.
NoUi == [mounted |-> FALSE]

\* The state after start-up: an empty collection; the configuration
\* (credentials, timezone) is one of the given ones and never changes.
InitWith(envs, tzs) ==
    /\ store = <<>>
    /\ nextId = 1
    /\ now = 0
    /\ env \in envs
    /\ tz \in tzs
    /\ req = NoRequest
    /\ resp = NoRequest
    /\ calls = <<>>
    /\ prevIns = NoHistory
    /\ lastIns = NoHistory
    /\ handlers = <<>>
    /\ ui = NoUi

----------------------------------------------------------------------------
(* Spec: the record routes (create, list, delete).  They never read the    *)
(* timezone or the catalog credentials.                                    *)

Init == InitWith({e \in Envs : ~e.spotify}, {0})

Next ==
    \/ Tick(MaxNow)
    \/ /\ nextId <= MaxEntries
       /\ \E mood \in MoodInputs, note \in NoteInputs, song \in SongInputs,
             ai \in PostAiOutcomes : PostMoods(mood, note, song, ai)
    \/ \E tie \in TieOrders : GetMoods(tie)
    \/ \E id \in DeleteIdInputs : DeleteMood(id)

Spec == Init /\ [][Next]_vars

----------------------------------------------------------------------------
(* SpecInsights: GET /api/insights over stores of whole-number moods,      *)
(* under every timezone offset and a clock that runs over several days.    *)
(* Deletes remove the oldest stored entry.                                 *)

InsMoodInputs == { JNumber(QInt(1)), JNumber(QInt(3)) }

InitInsights == InitWith({e \in Envs : ~e.spotify /\ ~e.gemini}, TzOffsets)

NextInsights ==
    \/ Tick(MaxInsNow)
    \/ /\ nextId <= MaxInsEntries
       /\ \E mood \in InsMoodInputs : PostMoods(mood, Undefined, Undefined, AiThrows)
    \/ \E id \in {i \in StoredIds : \A j \in StoredIds : i <= j} :
          DeleteMood(ObjectIdParam(id))
    \/ \E tie \in TieOrders : GetInsights(tie, AiThrows)

SpecInsights == InitInsights /\ [][NextInsights]_vars

----------------------------------------------------------------------------
(* SpecPlaylist: POST /api/playlist/analyze under every configuration.     *)
(* The handler reads and writes no entry.                                  *)

InitPlaylist == InitWith(Envs, {0})

NextPlaylist ==
    \E url \in UrlInputs, tracks \in TracksInputs, up \in Upstreams :
        PlaylistAnalyze(url, tracks, up.token, up.catalog, up.ai)

SpecPlaylist == InitPlaylist /\ [][NextPlaylist]_vars

----------------------------------------------------------------------------
(* SpecList: GET /api/moods over collections larger than the list limit.   *)
(* Entries differ in id and timestamp only, only the oldest entries are    *)
(* ever deleted, and the clock stands still until the collection is about  *)
(* to reach the list limit.                                                *)

InitList == InitWith({e \in Envs : ~e.spotify /\ ~e.gemini}, {0})

NextList ==
    \/ /\ Len(store) + 1 >= ListLimit
       /\ Tick(MaxListNow)
    \/ /\ nextId <= MaxListEntries
       /\ PostMoods(JNumber(QInt(2)), Undefined, Undefined, AiThrows)
    \/ \E id \in 1..MaxListDeletes : DeleteMood(ObjectIdParam(id))
    \/ \E tie \in TieOrders : GetMoods(tie)

SpecList == InitList /\ [][NextList]_vars

----------------------------------------------------------------------------
(* SpecAi: the routes that read no entry (health, music analysis, song     *)
(* recommendations) under every configuration and every AI outcome.        *)

InitAi == InitWith(Envs, {0})

NextAi ==
    \/ Tick(MaxAiNow)
    \/ Health
    \/ \E title \in TitleInputs, artist \in ArtistInputs, rnd \in RandomDraws,
          ai \in AiOutcomes : MusicAnalyze(title, artist, rnd, ai)
    \/ \E mood \in MoodInputs, ai \in AiOutcomes : RecommendSongs(mood, ai)

SpecAi == InitAi /\ [][NextAi]_vars

----------------------------------------------------------------------------
(* SpecRoutes: every route of the server over one small collection.        *)

RouteMoodInputs == { JNumber(QInt(1)), JNumber(QInt(5)) }
RouteDeleteInputs ==
    {ObjectIdParam(n) : n \in 1..(MaxRouteEntries + 1)} \cup {MalformedParam}
RouteAiOutcomes == { AiThrows, AiText(<<"{", "}">>) }
RouteUpstreams ==
    { Upstream("fail", Catalog(FALSE, FALSE, 0, 0), AiThrows),
      Upstream("ok", Catalog(TRUE, TRUE, 2, 2), AiText(<<"{", "}">>)) }

InitRoutes == InitWith(Envs, {0})

NextRoutes ==
    \/ Tick(MaxRouteNow)
    \/ /\ nextId <= MaxRouteEntries
       /\ \E mood \in RouteMoodInputs :
             PostMoods(mood, Undefined, Undefined, AiThrows)
    \/ \E tie \in TieOrders : GetMoods(tie)
    \/ \E id \in RouteDeleteInputs : DeleteMood(id)
    \/ \E tie \in TieOrders, ai \in RouteAiOutcomes : GetInsights(tie, ai)
    \/ Health
    \/ \E ai \in RouteAiOutcomes :
          MusicAnalyze(Undefined, Undefined, <<Q(0, 1), Q(0, 1), Q(0, 1), Q(0, 1)>>, ai)
    \/ \E url \in {Undefined, Some(UrlUri)}, up \in RouteUpstreams :
          PlaylistAnalyze(url, JArray(TrackList(1)), up.token, up.catalog, up.ai)
    \/ \E mood \in RouteMoodInputs, ai \in RouteAiOutcomes :
          RecommendSongs(mood, ai)

SpecRoutes == InitRoutes /\ [][NextRoutes]_vars

----------------------------------------------------------------------------
(* SpecNotes: POST /api/moods with a valid mood and notes and songs that   *)
(* are absent, blank, padded with whitespace, and at and over the         *)
(* maximum lengths of the schema.  Deletes remove the oldest stored entry. *)

InitNotes == InitWith({e \in Envs : ~e.spotify /\ ~e.gemini}, {0})

NextNotes ==
    \/ /\ nextId <= MaxNoteEntries
       /\ \E note \in NoteCases, song \in SongCases :
             PostMoods(JNumber(QInt(2)), note, song, AiThrows)
    \/ \E id \in {i \in StoredIds : \A j \in StoredIds : i <= j} :
          DeleteMood(ObjectIdParam(id))

SpecNotes == InitNotes /\ [][NextNotes]_vars

----------------------------------------------------------------------------
(* SpecDays: GET /api/insights over more calendar days than the response   *)
(* has rows.  One entry is created per day: the first at any time of the   *)
(* first day, the later ones when their day begins.  The entry of the      *)
(* second day may be deleted, which leaves a day without an entry.         *)

DayDeleteIds == {2}

HasEntryToday == DateKey(now) \in {DateKey(e.timestamp) : e \in Range(store)}

InitDays == InitWith({e \in Envs : ~e.spotify /\ ~e.gemini}, TzOffsets)

NextDays ==
    \/ /\ IF store = <<>> THEN now + 1 < TicksPerDay
          ELSE HasEntryToday \/ now % TicksPerDay # 0
       /\ Tick(MaxDays * TicksPerDay - 1)
    \/ /\ nextId <= MaxDays
       /\ ~HasEntryToday
       /\ store = <<>> \/ now % TicksPerDay = 0
       /\ \E mood \in (IF store = <<>> THEN InsMoodInputs ELSE {JNumber(QInt(3))}) :
             PostMoods(mood, Undefined, Undefined, AiThrows)
    \/ \E id \in DayDeleteIds : DeleteMood(ObjectIdParam(id))
    \/ \E tie \in TieOrders : GetInsights(tie, AiThrows)

SpecDays == InitDays /\ [][NextDays]_vars

----------------------------------------------------------------------------
(* SpecExtract: extractPlaylistId, as POST /api/playlist/analyze applies   *)
(* it to spotifyUrl values built from the literal prefixes, id characters  *)
(* and other characters.  The token request fails.                         *)

InitExtract == InitWith({e \in Envs : ~e.gemini}, {0})

\* The body has no tracks; the token request is refused.
NoTracks == NotAnArray("undefined")
TokenRefused == Upstream("fail", Catalog(FALSE, FALSE, 0, 0), AiThrows)

NextExtract ==
    \E url \in BuiltUrls :
        PlaylistAnalyze(Some(url), NoTracks, TokenRefused.token,
                        TokenRefused.catalog, TokenRefused.ai)

SpecExtract == InitExtract /\ [][NextExtract]_vars

----------------------------------------------------------------------------
(* SpecSteps: up to MaxHandlers requests to POST /api/moods and to the     *)
(* catalog path of POST /api/playlist/analyze, followed await by await and *)
(* interleaved in every order, under every configuration.                  *)

StepMoodInputs == { JNumber(QInt(2)), JNumber(QInt(5)) }
TrackCounts == {0, 2}

InitSteps == InitWith(Envs, {0})

NextSteps ==
    \/ /\ Len(handlers) < MaxHandlers
       /\ \E mood \in StepMoodInputs : MoodsBegin(mood)
    \/ /\ Len(handlers) < MaxHandlers
       /\ PlaylistBegin(Some(UrlUri))
    \/ \E h \in 1..MaxHandlers, ok \in BOOLEAN : MoodsSaved(h, ok)
    \/ \E h \in 1..MaxHandlers, ai \in RouteAiOutcomes : MoodsInsight(h, ai)
    \/ \E h \in 1..MaxHandlers, ok \in BOOLEAN, n \in TrackCounts :
          CatalogCalled(h, ok, n)
    \/ \E h \in 1..MaxHandlers, ai \in AiOutcomes : PlaylistAnalyzed(h, ai)

SpecSteps == InitSteps /\ [][NextSteps]_vars

----------------------------------------------------------------------------
(* SpecDeletes: up to MaxHandlers requests to DELETE /api/moods/:id at a   *)
(* time, followed await by await and interleaved in every order, over      *)
(* entries that POST /api/moods created.                                   *)

StepDeleteInputs ==
    {ObjectIdParam(n) : n \in 1..MaxDeleteEntries} \cup {MalformedParam}

InitDeletes == InitWith({e \in Envs : ~e.gemini /\ ~e.spotify}, {0})

NextDeletes ==
    \/ /\ nextId <= MaxDeleteEntries
       /\ PostMoods(JNumber(QInt(2)), Undefined, Undefined, AiThrows)
    \/ /\ Len(handlers) < MaxHandlers
       /\ \E id \in StepDeleteInputs : DeleteBegin(id)
    \/ \E h \in DOMAIN handlers, ok \in BOOLEAN : DeleteCompleted(h, ok)

SpecDeletes == InitDeletes /\ [][NextDeletes]_vars

----------------------------------------------------------------------------
(* SpecTracker: one MoodTracker component against the server.  Entries are *)
(* created by the component and, before it mounts, by earlier requests.    *)

InitTracker == InitWith({e \in Envs : ~e.gemini /\ ~e.spotify}, {0})

NextTracker ==
    \/ /\ ~ui.mounted
       /\ nextId <= MaxTrackerEntries
       /\ PostMoods(JNumber(QInt(2)), Undefined, Undefined, AiThrows)
    \/ TrackerMount
    \/ SelectMood(3)
    \/ /\ ui.mounted
       /\ Len(ui.tasks) < MaxTasks
       /\ nextId <= MaxTrackerEntries
       /\ SubmitClick
    \/ /\ ui.mounted
       /\ Len(ui.tasks) < MaxTasks
       /\ \E id \in 1..MaxTrackerEntries : DeleteClick(id)
    \/ \E t \in 1..MaxTasks, ok \in BOOLEAN : ServerAnswers(t, ok, "natural")
    \/ \E t \in 1..MaxTasks : ClientReceives(t)

SpecTracker == InitTracker /\ [][NextTracker]_vars

----------------------------------------------------------------------------
(* SpecJournal: one MoodJournal component against the server, with and     *)
(* without the AI credential.  The AI throws, answers with prose (the      *)
(* server then sends its own list) or answers with an empty object.        *)

JournalMoods == {2, 4}
JournalNotes == { <<>>, <<" ">>, <<"h", "i">>, <<" ", "o", "k", " ">> }

InitJournal == InitWith({e \in Envs : ~e.spotify}, {0})

NextJournal ==
    \/ JournalMount
    \/ \E mood \in JournalMoods : JournalSelectMood(mood)
    \/ \E text \in JournalNotes : TypeNote(text)
    \/ /\ nextId <= MaxJournalEntries
       /\ JournalSubmitClick
    \/ \E ok \in BOOLEAN : JournalCreateAnswered(ok)
    \/ JournalAfterCreate
    \/ \E ok \in BOOLEAN, ai \in AiOutcomes : JournalRecommendAnswered(ok, ai)
    \/ JournalAfterRecommend
    \/ \E which \in {"mount", "submit"}, ok \in BOOLEAN :
          JournalListAnswered(which, ok, "natural")
    \/ \E which \in {"mount", "submit"} : JournalAfterList(which)

SpecJournal == InitJournal /\ [][NextJournal]_vars

----------------------------------------------------------------------------
(* SpecAnswers: the two routes that parse the answer of the AI as JSON,    *)
(* POST /api/playlist/analyze with manual tracks and                       *)
(* POST /api/recommend-songs, over answers that are objects, other values  *)
(* and no JSON at all, bare and inside a Markdown fence.                    *)

Quoted(chars) == <<"\"">> \o chars \o <<"\"">>

SummaryKey == <<"s", "u", "m", "m", "a", "r", "y">>
TraitsKey == <<"t", "r", "a", "i", "t", "s">>
PlaylistMetadataKey ==
    <<"p", "l", "a", "y", "l", "i", "s", "t",
      "M", "e", "t", "a", "d", "a", "t", "a">>

DigitChar(i) == CHOOSE c \in Digits : DigitValue(c) = i

\* The text of the i-th member of an answer.
MemberText(i) ==
    CASE i = 1 -> Quoted(SummaryKey) \o <<":", " ">> \o Quoted(<<"o", "k">>)
      [] i = 2 -> Quoted(PlaylistMetadataKey) \o <<":", "{">>
                      \o Quoted(<<"t", "o", "t", "a", "l">>) \o <<":", "7", "}">>
      [] i = 3 -> Quoted(TraitsKey) \o <<":", "{">> \o Quoted(<<"o">>)
                      \o <<":", "1", "0", "}">>
      [] OTHER -> Quoted(<<"k", DigitChar(i)>>) \o <<":", DigitChar(i)>>

RECURSIVE MembersText(_)
MembersText(n) ==
    IF n = 0 THEN <<>>
    ELSE IF n = 1 THEN MemberText(1)
    ELSE MembersText(n - 1) \o <<",", "\n">> \o MemberText(n)

ObjectText(n) == <<"{">> \o MembersText(n) \o <<"}">>

\* Objects of up to MaxMembers members, a number, a string, prose, and an
\* object cut short.
AnswerDocs ==
    {ObjectText(n) : n \in 0..MaxMembers}
        \cup { <<"7">>, Quoted(<<"h", "i">>), <<"o", "k">>,
               <<"{">> \o MembersText(1) }

FenceKinds ==
    { "bare", "padded", "json", "json tight", "json trailing newline",
      "plain", "plain tight" }

\* A document as the AI may wrap it.
Wrapped(kind, doc) ==
    CASE kind = "bare" -> doc
      [] kind = "padded" -> <<" ", "\n">> \o doc \o <<"\n">>
      [] kind = "json" -> JsonFence \o <<"\n">> \o doc \o <<"\n">> \o Fence
      [] kind = "json tight" -> JsonFence \o doc \o Fence
      [] kind = "json trailing newline" ->
            JsonFence \o <<"\n">> \o doc \o <<"\n">> \o Fence \o <<"\n">>
      [] kind = "plain" -> Fence \o <<"\n">> \o doc \o <<"\n">> \o Fence
      [] kind = "plain tight" -> Fence \o doc \o Fence

AnswerOutcomes ==
    {AiThrows} \cup {AiText(Wrapped(kind, doc)) :
                        kind \in FenceKinds, doc \in AnswerDocs}

\* n tracks by m artists in rotation; every second track has a year.
AnswerTracks(n, m) ==
    [i \in 1..n |->
        TrackOf(<<"t", i>>, "a" \o ToString(((i - 1) % m) + 1),
                IF i % 2 = 0 THEN Year(1990 + i) ELSE NoYear)]

AnswerTrackLists ==
    {AnswerTracks(1, 1)}
        \cup {AnswerTracks(MaxAnswerTracks, m) : m \in 1..MaxAnswerTracks}

InitAnswers == InitWith({e \in Envs : e.gemini /\ ~e.spotify}, {0})

NextAnswers ==
    \/ \E tracks \in AnswerTrackLists, ai \in AnswerOutcomes :
          PlaylistAnalyze(Undefined, JArray(tracks), TokenRefused.token,
                          TokenRefused.catalog, ai)
    \/ \E mood \in StepMoodInputs, ai \in AnswerOutcomes :
          RecommendSongs(mood, ai)

SpecAnswers == InitAnswers /\ [][NextAnswers]_vars

----------------------------------------------------------------------------
(* Properties *)

HasCall(name) == \E i \in DOMAIN calls : calls[i] = name

\* The mood is an integer in the closed range [MoodMin, MoodMax].
MoodIsIntegerInRange(mood) ==
    /\ mood.t = "number"
    /\ IsInteger(mood.v)
    /\ MoodMin <= mood.v.num
    /\ mood.v.num <= MoodMax

\* C1: a POST /api/moods whose mood is not an integer in [0,4] is answered
\* 400 and leaves the stored entries as they were.
C1_InvalidMoodRejected ==
    [][\A mood \in MoodInputs, note \in NoteInputs, song \in SongInputs,
          ai \in PostAiOutcomes :
            (PostMoods(mood, note, song, ai) /\ ~MoodIsIntegerInRange(mood))
                => (resp'.status = 400 /\ store' = store)]_vars

Timestamps(s) == {s[i].timestamp : i \in DOMAIN s}

\* C2: GET /api/moods returns at most ListLimit entries (all of them when
\* the store holds no more), each a distinct stored entry, none older than
\* a stored entry that is left out, in non-increasing timestamp order.
C2_ListNewestFirst ==
    resp.route = "GET /api/moods" =>
        LET b == resp.body
        IN  /\ Len(b) <= 50
            /\ Len(b) = (IF Len(store) < 50 THEN Len(store) ELSE 50)
            /\ Range(b) \subseteq Range(store)
            /\ Cardinality(Range(b)) = Len(b)
            /\ \A e \in Range(store) \ Range(b) :
                  \A f \in Range(b) : e.timestamp <= f.timestamp
            /\ \A i \in 1..(Len(b) - 1) : b[i].timestamp >= b[i + 1].timestamp

C2_Witness ==
    /\ resp.route = "GET /api/moods"
    /\ Len(store) > 50
    /\ Len(resp.body) = 50
    /\ Cardinality(Timestamps(resp.body)) > 1
    /\ Range(store) \ Range(resp.body) # {}

\* The :id parameter names an entry that is in the store.
IdentifiesStored(id) == id.kind = "objectid" /\ id.n \in StoredIds

\* C3: DELETE /api/moods/:id with an id of no stored entry is answered 404
\* and leaves the store unchanged; with the id of a stored entry it is
\* answered 200 with that entry and removes exactly that entry.
C3_DeleteByIdOr404 ==
    [][\A id \in DeleteIdInputs :
          DeleteMood(id) =>
            IF IdentifiesStored(id)
            THEN /\ resp'.status = 200
                 /\ resp'.body.entry \in Range(store)
                 /\ resp'.body.entry.id = id.n
                 /\ Range(store') = Range(store) \ {resp'.body.entry}
            ELSE /\ resp'.status = 404
                 /\ store' = store]_vars

\* C4: when the AI call of a POST /api/moods fails after the entry was
\* saved, the response is 200 with the saved entry and a null aiInsight,
\* and the entry is in the store.
C4_AiFailureKeepsEntry ==
    (/\ resp.route = "POST /api/moods"
     /\ HasCall("ai.generateContent")
     /\ ~req.ai.ok)
        => /\ resp.status = 200
           /\ resp.body.aiInsight = Null
           /\ resp.body.entry \in Range(store)
           /\ resp.body.entry.mood = req.mood.v

C4_Witness ==
    /\ resp.route = "POST /api/moods"
    /\ MoodIsIntegerInRange(req.mood)
    /\ env.gemini
    /\ calls = <<"store.save", "ai.generateContent">>
    /\ ~req.ai.ok
    /\ resp.status = 200

\* The calendar dates that have at least one stored entry.
DatesWithEntries == {DateKey(e.timestamp) : e \in Range(store)}

\* The number of consecutive days, counted back from day, that are all in
\* days: the backward walk that stops at the first gap.
RECURSIVE DaysBack(_, _)
DaysBack(day, days) ==
    IF day \in days THEN 1 + DaysBack(day - 1, days) ELSE 0

\* C5: the streak of GET /api/insights is the number of consecutive
\* calendar days with an entry, counted back from today at the server and
\* stopping at the first day without one, for every clock time and every
\* timezone offset.
C5_StreakCountsBackFromToday ==
    (lastIns.set /\ store # <<>>) =>
        lastIns.body.streak = DaysBack(lastIns.day, DatesWithEntries)

EntriesOn(date) == SelectSeq(store, LAMBDA e : DateKey(e.timestamp) = date)

RECURSIVE TotalMood(_)
TotalMood(entries) ==
    IF entries = <<>> THEN QInt(0)
    ELSE QAdd(Head(entries).mood, TotalMood(Tail(entries)))

\* The dates that are among the n most recent dates with entries.
MostRecentDates(n) ==
    {d \in DatesWithEntries :
        Cardinality({d2 \in DatesWithEntries : d2 > d}) < n}

\* C6: the dailyAverages of GET /api/insights hold exactly one row for each
\* calendar date with an entry (of the DailyRowsLimit most recent); its
\* entryCount is the number of the entries of that date and its averageMood the
\* sum of their moods divided by that number.
C6_OneRowPerDate ==
    (lastIns.set /\ store # <<>>) =>
        LET rows == lastIns.body.dailyAverages
        IN  /\ {rows[i].date : i \in DOMAIN rows} = MostRecentDates(30)
            /\ Len(rows) = Cardinality(MostRecentDates(30))
            /\ \A i \in DOMAIN rows :
                  /\ rows[i].entryCount = Len(EntriesOn(rows[i].date))
                  /\ rows[i].averageMood =
                        QDivInt(TotalMood(EntriesOn(rows[i].date)),
                                Len(EntriesOn(rows[i].date)))

C6_Witness ==
    /\ lastIns.set
    /\ Len(lastIns.body.dailyAverages) = 2
    /\ \E i \in DOMAIN lastIns.body.dailyAverages :
          /\ lastIns.body.dailyAverages[i].entryCount = 2
          /\ lastIns.body.dailyAverages[i].averageMood = QInt(2)
          /\ {e.mood : e \in Range(EntriesOn(lastIns.body.dailyAverages[i].date))}
                = {QInt(1), QInt(3)}

\* The mean mood of the entries of one date.
DayMean(date) == QDivInt(TotalMood(EntriesOn(date)), Len(EntriesOn(date)))

RECURSIVE SumDayMeans(_)
SumDayMeans(dates) ==
    IF dates = {} THEN QInt(0)
    ELSE LET d == CHOOSE x \in dates : TRUE
         IN  QAdd(DayMean(d), SumDayMeans(dates \ {d}))

\* The mean of the raw entry moods.
RawMean == QDivInt(TotalMood(store), Len(store))

\* C7: for a non-empty store the averageMood of GET /api/insights is the
\* mean of the per-day means over all dates with entries, every date
\* weighted equally.
C7_AverageOfDailyAverages ==
    (lastIns.set /\ store # <<>>) =>
        lastIns.body.averageMood =
            QDivInt(SumDayMeans(DatesWithEntries), Cardinality(DatesWithEntries))

C7_Witness ==
    /\ lastIns.set
    /\ Len(store) = 3
    /\ Cardinality(DatesWithEntries) = 2
    /\ lastIns.body.averageMood = QInt(2)
    /\ RawMean = Q(7, 3)

\* C8 as stated: two GET /api/insights calls with no create or delete
\* between them return the same averageMood, streak, totalDays and
\* dailyAverages, whatever time passes between them.
C8_InsightsRepeatable ==
    (prevIns.set /\ lastIns.set) =>
        /\ prevIns.body.averageMood = lastIns.body.averageMood
        /\ prevIns.body.streak = lastIns.body.streak
        /\ prevIns.body.totalDays = lastIns.body.totalDays
        /\ prevIns.body.dailyAverages = lastIns.body.dailyAverages

\* C8 as amended: averageMood, totalDays and dailyAverages are the same
\* whatever time passes between the two calls; the streak is the same when
\* both calls fall on the same server-local calendar day.
C8_InsightsRepeatableWithinDay ==
    (prevIns.set /\ lastIns.set) =>
        /\ prevIns.body.averageMood = lastIns.body.averageMood
        /\ prevIns.body.totalDays = lastIns.body.totalDays
        /\ prevIns.body.dailyAverages = lastIns.body.dailyAverages
        /\ prevIns.day = lastIns.day
              => prevIns.body.streak = lastIns.body.streak

C8_Witness ==
    /\ prevIns.set
    /\ lastIns.set
    /\ prevIns.day < lastIns.day
    /\ prevIns.body.streak >= 1
    /\ prevIns.body.streak # lastIns.body.streak
    /\ lastIns.body.totalDays >= 2

\* The manual path asks for at least this many tracks.
MinManualTracks == 3

\* C9: POST /api/playlist/analyze on the manual path with fewer than
\* MinManualTracks tracks is answered with an error status and makes no AI
\* call.
C9_FewTracksRejected ==
    (/\ resp.route = "POST /api/playlist/analyze"
     /\ ~req.spotifyUrl.some
     /\ req.tracks.t = "array"
     /\ Len(req.tracks.items) < MinManualTracks)
        => /\ resp.status >= 400
           /\ ~HasCall("ai.generateContent")

\* Supplied URLs that are in none of the three accepted formats.
UnparseableUrls == {UrlDash, UrlUriNoId, UrlAlbum}

\* C10: POST /api/playlist/analyze with a supplied spotifyUrl that yields no
\* playlist id is answered 400 and makes no network call, whichever
\* credentials are configured.
C10_BadUrlNoNetwork ==
    (/\ resp.route = "POST /api/playlist/analyze"
     /\ req.spotifyUrl.some
     /\ req.spotifyUrl.s \in UnparseableUrls)
        => /\ resp.status = 400
           /\ calls = <<>>

C10_Witness ==
    /\ resp.route = "POST /api/playlist/analyze"
    /\ req.spotifyUrl = Some(UrlDash)
    /\ env.spotify
    /\ env.gemini
    /\ req.tracks.t = "array"
    /\ Len(req.tracks.items) = 3
    /\ req.token = "ok"
    /\ resp.status = 400

----------------------------------------------------------------------------
(* Song recommendations *)

IsRecommend == req.route = "POST /api/recommend-songs"

\* The request passed validation, the AI is configured and returned text.
RecommendGotText ==
    IsRecommend /\ ~MoodRejected(req.mood) /\ env.gemini /\ req.ai.ok

\* C11: when the AI is configured and returns text that does not parse as
\* JSON, POST /api/recommend-songs with a valid mood answers 200 with a
\* non-empty fallback list (2 items when mood >= 3, 3 items when mood <= 2)
\* and a playlist_vibe string.
C11_UnparsableTextFallsBack ==
    (RecommendGotText /\ ~ParseAnswer(req.ai).ok) =>
        /\ resp.status = 200
        /\ DOMAIN resp.body = {"recommendations", "playlist_vibe"}
        /\ Len(resp.body.recommendations) > 0
        /\ (~QLess(req.mood.v, QInt(3)) => Len(resp.body.recommendations) = 2)
        /\ (~QLess(QInt(2), req.mood.v) => Len(resp.body.recommendations) = 3)
        /\ resp.body.playlist_vibe \in STRING

C11_Witness ==
    /\ RecommendGotText /\ ~ParseAnswer(req.ai).ok
    /\ req.mood.v = QInt(4)
    /\ Len(resp.body.recommendations) = 2

\* The mood of the body is not a number, or lies outside 0..4.
MoodOutOfRange(mood) ==
    \/ mood.t # "number"
    \/ QLess(mood.v, QInt(0))
    \/ QLess(QInt(4), mood.v)

\* C20: POST /api/recommend-songs answers 400 for every mood outside 0..4
\* and every non-number mood, without calling the AI, whether or not the AI
\* credential is configured.
C20_RecommendValidatesFirst ==
    (IsRecommend /\ MoodOutOfRange(req.mood)) =>
        resp.status = 400 /\ ~HasCall("ai.generateContent")

C20_Witness ==
    /\ IsRecommend /\ ~env.gemini
    /\ req.mood = JNumber(QInt(5))
    /\ resp.status = 400

----------------------------------------------------------------------------
(* Failure of the AI call at the routes that have a fallback *)

FallbackRoutes ==
    { "POST /api/music/analyze", "GET /api/insights",
      "POST /api/recommend-songs" }

\* The request is valid, the AI is configured and generateContent threw.
AiCallFailed ==
    /\ req.route \in FallbackRoutes
    /\ env.gemini
    /\ ~req.ai.ok
    /\ HasCall("ai.generateContent")
    /\ IsRecommend => ~MoodOutOfRange(req.mood)

\* C12: at POST /api/music/analyze, GET /api/insights and
\* POST /api/recommend-songs a failure of the AI call itself never gives an
\* error status: the answer is 200 with the fallback content.
C12_AiFailureNeverAnError ==
    AiCallFailed =>
        /\ resp.status = 200
        /\ req.route = "POST /api/music/analyze" =>
              resp.body.moodPrediction = Neutral
        /\ req.route = "GET /api/insights" =>
              resp.body.insights =
                  TemplateInsights(resp.body.averageMood,
                                   resp.body.totalDays, resp.body.streak)
        /\ IsRecommend =>
              resp.body = FallbackRecommendations(req.mood.v)

----------------------------------------------------------------------------
(* Playlist analysis: failures of the catalog and of the AI *)

IsPlaylist == req.route = "POST /api/playlist/analyze"

WellFormedUrls == {UrlUri, UrlWeb, UrlBare}

\* A request on the catalog path whose spotifyUrl yields a playlist id.
OnCatalogPath ==
    IsPlaylist /\ req.spotifyUrl.some /\ req.spotifyUrl.s \in WellFormedUrls

TokenObtainable == env.spotify /\ req.token = "ok"

CatalogAnswered == TokenObtainable /\ req.catalog.info /\ req.catalog.items

\* C13 (as stated): with a well-formed spotifyUrl the route answers 400 when
\* no access token is obtainable, when the catalog fetch fails, and when the
\* fetched playlist has zero tracks.
C13_CatalogFailuresAre400 ==
    OnCatalogPath =>
        /\ ~TokenObtainable => resp.status = 400
        /\ (TokenObtainable /\ ~CatalogAnswered) => resp.status = 400
        /\ (CatalogAnswered /\ Len(req.catalog.tracks) = 0) => resp.status = 400

\* C13 (amended): with a well-formed spotifyUrl the route answers 500 when
\* no access token is obtainable (credentials not configured, or the token
\* request fails), 400 when the catalog fetch fails, and 400 when the
\* fetched playlist has zero tracks.
C13_NoToken500FetchFailure400 ==
    OnCatalogPath =>
        /\ ~TokenObtainable => resp.status = 500
        /\ (TokenObtainable /\ ~CatalogAnswered) => resp.status = 400
        /\ (CatalogAnswered /\ Len(req.catalog.tracks) = 0) => resp.status = 400

C13_Witness ==
    /\ OnCatalogPath
    /\ ~env.spotify
    /\ resp.status = 500
    /\ calls = <<>>

\* A non-empty track list was obtained, from the catalog or from the body.
TrackListObtained ==
    /\ IsPlaylist
    /\ \/ OnCatalogPath /\ CatalogAnswered /\ Len(req.catalog.tracks) > 0
       \/ /\ ~req.spotifyUrl.some \/ req.spotifyUrl.s = <<>>
          /\ req.tracks.t = "array"
          /\ Len(req.tracks.items) > 0

AiTextParsed == env.gemini /\ req.ai.ok /\ ParseAnswer(req.ai).ok

\* C14: playlist analysis has no fallback: once a non-empty track list is
\* obtained the route answers 500 if the AI is not configured, if the AI call
\* fails or if its text does not parse, and it answers 200 only when the AI
\* text parses.
C14_PlaylistNoFallback ==
    /\ (TrackListObtained /\ ~AiTextParsed) => resp.status = 500
    /\ (IsPlaylist /\ resp.status = 200) => (TrackListObtained /\ AiTextParsed)

C14_Witness ==
    /\ TrackListObtained
    /\ env.gemini /\ req.ai.ok /\ ~ParseAnswer(req.ai).ok
    /\ resp.status = 500
    /\ HasCall("ai.generateContent")

----------------------------------------------------------------------------
(* Playlist analysis: the size of the analysed list *)

\* C19: on the catalog path playlistMetadata.analyzedTracks is at most 50
\* whatever the catalog returns, playlistMetadata.totalTracks is the total
\* the catalog reported, and analyzedTracks <= totalTracks.
C19_AnalyzedAtMost50AndTotal ==
    (OnCatalogPath /\ resp.status = 200) =>
        /\ resp.body.playlistMetadata.analyzedTracks <= 50
        /\ resp.body.playlistMetadata.totalTracks = req.catalog.total
        /\ resp.body.playlistMetadata.analyzedTracks
              <= resp.body.playlistMetadata.totalTracks

----------------------------------------------------------------------------
(* Notes and songs of stored entries *)

IsPostMoods == req.route = "POST /api/moods"

Blank(s) == \A i \in DOMAIN s : s[i] \in Whitespace

\* t is s without its leading and trailing whitespace.
IsTrimmed(t, s) ==
    /\ t # <<>>
    /\ t[1] \notin Whitespace
    /\ t[Len(t)] \notin Whitespace
    /\ \E i \in 1..Len(s) :
          /\ i + Len(t) - 1 <= Len(s)
          /\ SubSeq(s, i, i + Len(t) - 1) = t
          /\ Blank(SubSeq(s, 1, i - 1))
          /\ Blank(SubSeq(s, i + Len(t), Len(s)))

\* The stored text for a supplied text: absent for an absent or blank one,
\* the trimmed text otherwise.
StoredAs(stored, given) ==
    IF ~given.some \/ Blank(given.s)
    THEN ~stored.some
    ELSE stored.some /\ IsTrimmed(stored.s, given.s)

\* C15: no stored entry has a note or a song equal to the empty string; an
\* absent, empty or whitespace-only note or song is stored as absent, any
\* other one as its trimmed text.
C15_BlankTextStoredAbsent ==
    /\ \A i \in DOMAIN store :
          /\ store[i].note.some => store[i].note.s # <<>>
          /\ store[i].song.some => store[i].song.s # <<>>
    /\ (IsPostMoods /\ resp.status = 200) =>
          /\ StoredAs(store[Len(store)].note, req.note)
          /\ StoredAs(store[Len(store)].song, req.song)
          /\ resp.body.entry = store[Len(store)]

C15_Witness ==
    /\ IsPostMoods /\ resp.status = 200
    /\ req.note = Some(<<" ", "\n">>)
    /\ req.song = Some(<<" ">> \o Repeat("s", SongMaxLength))
    /\ ~store[Len(store)].note.some
    /\ store[Len(store)].song = Some(Repeat("s", SongMaxLength))

\* The trimmed note is longer than 500 characters or the trimmed song is
\* longer than 200.
TextTooLong(note, song) ==
    \/ note.some /\ Len(Trim(note.s)) > 500
    \/ song.some /\ Len(Trim(song.s)) > 200

\* C16: POST /api/moods with a valid mood and a trimmed note of more than
\* 500 characters or a trimmed song of more than 200 answers 400 and stores
\* nothing; no stored entry has a longer note or song.
C16_LongTextRejected400 ==
    /\ [](\A i \in DOMAIN store :
            /\ store[i].note.some => Len(store[i].note.s) <= 500
            /\ store[i].song.some => Len(store[i].song.s) <= 200)
    /\ [][\A note \in NoteCases, song \in SongCases :
            (/\ PostMoods(JNumber(QInt(2)), note, song, AiThrows)
             /\ TextTooLong(note, song))
                => (resp'.status = 400 /\ store' = store)]_vars

----------------------------------------------------------------------------
(* The server without an AI credential *)

\* C23: when the AI credential is not configured no handler calls the AI:
\* POST /api/moods with a valid mood answers 200 with aiInsight null,
\* POST /api/music/analyze answers 200 with the prediction "Neutral",
\* GET /api/insights on a non-empty store answers 200 with the two templated
\* sentences built from the computed average, day count and streak, and
\* POST /api/recommend-songs with a valid mood and
\* POST /api/playlist/analyze with a non-empty track list answer 500.
C23_NoCredentialNoAiCall ==
    ~env.gemini =>
        /\ ~HasCall("ai.generateContent")
        /\ (IsPostMoods /\ ~MoodOutOfRange(req.mood)) =>
              /\ resp.status = 200
              /\ resp.body.aiInsight = Null
        /\ req.route = "POST /api/music/analyze" =>
              /\ resp.status = 200
              /\ resp.body.moodPrediction = Neutral
        /\ (req.route = "GET /api/insights" /\ store # <<>>) =>
              /\ resp.status = 200
              /\ resp.body.insights =
                    << <<"Your average daily mood is ",
                         ToFixed1(resp.body.averageMood), "/4 across ",
                         resp.body.totalDays, " days.">>,
                       <<"You have a ", resp.body.streak,
                         "-day tracking streak!">> >>
        /\ (IsRecommend /\ ~MoodOutOfRange(req.mood)) =>
              resp.status = 500
        /\ TrackListObtained => resp.status = 500

\* Without the credential, insights over a stored entry of mood 1.
C23_Witness ==
    /\ ~env.gemini
    /\ req.route = "GET /api/insights"
    /\ Len(store) = 1
    /\ resp.status = 200
    /\ resp.body.insights =
          << <<"Your average daily mood is ", Q(10, 10), "/4 across ", 1,
               " days.">>,
             <<"You have a ", 1, "-day tracking streak!">> >>

----------------------------------------------------------------------------
(* Immutability of stored entries *)

ReadRoutes ==
    { "GET /api/moods", "GET /api/insights", "GET /api/health",
      "POST /api/music/analyze", "POST /api/playlist/analyze",
      "POST /api/recommend-songs" }

\* The step is a successful DELETE /api/moods/:id of the entry e.
DeletesEntry(e) ==
    /\ req'.route = "DELETE /api/moods/:id"
    /\ req'.id = ObjectIdParam(e.id)
    /\ resp'.status = 200
    /\ \A j \in DOMAIN store' : store'[j].id # e.id

\* C17: a stored entry keeps its id, mood, note, song and timestamp until it
\* is deleted: only a successful DELETE /api/moods/:id of that entry removes
\* it, no request changes it, and the read routes leave the store unchanged.
C17_EntriesImmutable ==
    [][/\ \A i \in DOMAIN store :
             \/ \E j \in DOMAIN store' : store'[j] = store[i]
             \/ DeletesEntry(store[i])
       /\ \A j \in DOMAIN store' :
             \/ \E i \in DOMAIN store : store[i] = store'[j]
             \/ store'[j].id \notin StoredIds
       /\ req'.route \in ReadRoutes => store' = store]_vars

C17_Witness ==
    /\ req.route = "DELETE /api/moods/:id"
    /\ resp.status = 200
    /\ req.id = ObjectIdParam(2)
    /\ StoredIds = {1}

----------------------------------------------------------------------------
(* Insights over more than 30 days *)

\* C18: dailyAverages holds only the 30 most recent calendar days with
\* entries, most recent first, while totalDays, averageMood and streak are
\* computed over all days with entries, so totalDays can exceed the number
\* of returned rows.  (The streak is compared on a server whose day is the
\* UTC day.)
C18_ThirtyRowsAggregatesOverAll ==
    (lastIns.set /\ store # <<>>) =>
        LET rows == lastIns.body.dailyAverages
        IN  /\ Len(rows) <= 30
            /\ {rows[i].date : i \in DOMAIN rows} = MostRecentDates(30)
            /\ \A i, j \in DOMAIN rows : i < j => rows[i].date > rows[j].date
            /\ lastIns.body.totalDays = Cardinality(DatesWithEntries)
            /\ lastIns.body.averageMood =
                  QDivInt(SumDayMeans(DatesWithEntries),
                          Cardinality(DatesWithEntries))
            /\ tz = 0 =>
                  lastIns.body.streak = DaysBack(lastIns.day, DatesWithEntries)

C18_Witness ==
    /\ lastIns.set
    /\ tz = 0
    /\ Len(lastIns.body.dailyAverages) = 30
    /\ lastIns.body.totalDays = 31
    /\ lastIns.body.streak = 31
    /\ lastIns.body.averageMood = Q(91, 31)

----------------------------------------------------------------------------
(* The ranges of the insights response *)

InMoodRange(q) == ~QLess(q, QInt(0)) /\ ~QLess(QInt(4), q)

\* C26: for a non-empty store GET /api/insights has 0 <= streak <=
\* totalDays, totalDays is the number of distinct dates with entries,
\* dailyAverages has min(30, totalDays) rows with distinct dates, every row
\* has entryCount >= 1 and an averageMood in [0, 4], and the overall
\* averageMood is in [0, 4]; for an empty store the response is the fixed
\* default: averageMood 2, streak 0, totalDays 0 and no rows.
C26_InsightsRanges ==
    lastIns.set =>
        LET body == lastIns.body
            rows == body.dailyAverages
        IN  IF store = <<>>
            THEN /\ body.averageMood = QInt(2)
                 /\ body.streak = 0
                 /\ body.totalDays = 0
                 /\ rows = <<>>
            ELSE /\ 0 <= body.streak
                 /\ body.streak <= body.totalDays
                 /\ body.totalDays = Cardinality(DatesWithEntries)
                 /\ Len(rows) =
                       IF body.totalDays < 30 THEN body.totalDays ELSE 30
                 /\ \A i, j \in DOMAIN rows :
                       i # j => rows[i].date # rows[j].date
                 /\ \A i \in DOMAIN rows :
                       /\ rows[i].entryCount >= 1
                       /\ InMoodRange(rows[i].averageMood)
                 /\ InMoodRange(body.averageMood)

\* More days than rows, and a day without an entry that cuts the streak.
C26_Witness ==
    /\ lastIns.set
    /\ lastIns.body.totalDays = 31
    /\ Len(lastIns.body.dailyAverages) = 30
    /\ lastIns.body.streak > 0
    /\ lastIns.body.streak < 31

----------------------------------------------------------------------------
(* extractPlaylistId *)

IsIdChar(c) == c \in Alnum

\* lit occurs in s at position i and is followed by an id character.
FormAt(s, lit, i) ==
    /\ i + Len(lit) <= Len(s)
    /\ SubSeq(s, i, i + Len(lit) - 1) = lit
    /\ IsIdChar(s[i + Len(lit)])

InForm(s, lit) == \E i \in 1..Len(s) : FormAt(s, lit, i)

InBareForm(s) == s # <<>> /\ \A i \in 1..Len(s) : IsIdChar(s[i])

\* id is what the pattern lit([a-zA-Z0-9]+) captures in s: the longest run
\* of id characters after the leftmost occurrence of the form.
IsCapture(id, s, lit) ==
    \E i \in 1..Len(s) :
        /\ FormAt(s, lit, i)
        /\ \A j \in 1..(i - 1) : ~FormAt(s, lit, j)
        /\ LET from == i + Len(lit)
               to == from + Len(id) - 1
           IN  /\ id # <<>>
               /\ to <= Len(s)
               /\ SubSeq(s, from, to) = id
               /\ \A k \in from..to : IsIdChar(s[k])
               /\ to < Len(s) => ~IsIdChar(s[to + 1])

\* C21: extractPlaylistId tries the URI form, the web-link form and the
\* bare id in this order and returns the id captured by the first form that
\* matches; it returns null exactly when the input is in none of the three
\* forms, and a bare alphanumeric id is returned unchanged.  The route
\* answers 400 without any call exactly when it returns null.
C21_ExtractPlaylistIdByPriority ==
    (IsPlaylist /\ req.spotifyUrl.some /\ req.spotifyUrl.s # <<>>) =>
        LET s == req.spotifyUrl.s
            id == ExtractPlaylistId(s)
        IN  /\ InForm(s, UriPrefix) => id.some /\ IsCapture(id.s, s, UriPrefix)
            /\ (~InForm(s, UriPrefix) /\ InForm(s, WebPrefix)) =>
                  id.some /\ IsCapture(id.s, s, WebPrefix)
            /\ InBareForm(s) => id = Some(s)
            /\ ~id.some <=>
                  ~(InForm(s, UriPrefix) \/ InForm(s, WebPrefix) \/ InBareForm(s))
            /\ ~id.some <=> (resp.status = 400 /\ calls = <<>>)

C21_Witness ==
    /\ IsPlaylist
    /\ req.spotifyUrl = Some(WebPrefix \o UriPrefix \o <<"Z", "9">>)
    /\ ExtractPlaylistId(req.spotifyUrl.s) = Some(<<"Z", "9">>)
    /\ resp.status = 500

----------------------------------------------------------------------------
(* The order of the external calls of one request *)

CallOrder(route) ==
    IF route = "POST /api/moods"
    THEN <<"store.save", "ai.generateContent">>
    ELSE <<"spotify.token", "spotify.playlist", "spotify.tracks",
           "ai.generateContent">>

\* C22: within one request the external calls are strictly sequential: a
\* call starts only after the call before it, in the order of the route,
\* has completed, and no call starts after a call that failed.
C22_CallsSequential ==
    \A h \in DOMAIN handlers :
        LET log == handlers[h].log
            order == CallOrder(handlers[h].route)
        IN  /\ Len(log) <= 2 * Len(order)
            /\ \A i \in DOMAIN log :
                  /\ i % 2 = 1 =>
                        /\ log[i].ev = "start"
                        /\ log[i].call = order[(i + 1) \div 2]
                  /\ i % 2 = 0 =>
                        /\ log[i].ev \in {"ok", "fail"}
                        /\ log[i].call = log[i - 1].call
                  /\ log[i].ev = "fail" => i = Len(log)

C22_Witness ==
    /\ Len(handlers) = 2
    /\ handlers[1].route = "POST /api/playlist/analyze"
    /\ Len(handlers[1].log) = 8
    /\ handlers[1].status = 200
    /\ handlers[2].route = "POST /api/moods"
    /\ Len(handlers[2].log) = 2
    /\ handlers[2].log[2].ev = "fail"
    /\ handlers[2].status = 500

----------------------------------------------------------------------------
(* The answer of the AI as JSON *)

\* The request reached the parse of the answer.
AnswerReceived ==
    /\ req.route \in {"POST /api/playlist/analyze", "POST /api/recommend-songs"}
    /\ env.gemini /\ req.ai.ok
    /\ IsRecommend => ~MoodOutOfRange(req.mood)
    /\ IsPlaylist => TrackListObtained

\* The tracks the playlist analysis runs over.
AnalyzedTrackList ==
    IF req.spotifyUrl.some /\ req.spotifyUrl.s # <<>>
    THEN req.catalog.tracks
    ELSE req.tracks.items

MetadataKeys ==
    { "playlistName", "totalTracks", "analyzedTracks", "uniqueArtists",
      "yearRange", "artistDiversity", "topArtists" }

\* C24: a successful POST /api/playlist/analyze response is the parsed JSON
\* object of the AI with every key preserved except playlistMetadata, which
\* is always computed by the server (playlistName, totalTracks,
\* analyzedTracks, uniqueArtists, yearRange, artistDiversity and at most
\* five topArtists) and overrides a playlistMetadata of the AI;
\* uniqueArtists is at most analyzedTracks.
C24_AiObjectPlusServerMetadata ==
    (IsPlaylist /\ resp.status = 200) =>
        LET answer == ParseAnswer(req.ai)
            metadata == resp.body.playlistMetadata
            tracks == AnalyzedTrackList
            artists == {tracks[i].artist : i \in DOMAIN tracks}
            years == {tracks[i].year.n :
                         i \in {j \in DOMAIN tracks : tracks[j].year.some}}
        IN  /\ answer.ok
            /\ answer.t = "object" =>
                  /\ DOMAIN resp.body = DOMAIN answer.v \cup {"playlistMetadata"}
                  /\ \A k \in DOMAIN answer.v \ {"playlistMetadata"} :
                        resp.body[k] = answer.v[k]
            /\ DOMAIN metadata = MetadataKeys
            /\ metadata.analyzedTracks = Len(tracks)
            /\ metadata.uniqueArtists = Cardinality(artists)
            /\ metadata.uniqueArtists <= metadata.analyzedTracks
            /\ Len(metadata.topArtists) <= 5
            /\ Len(metadata.topArtists) =
                  IF Cardinality(artists) < 5 THEN Cardinality(artists) ELSE 5
            /\ \A i \in DOMAIN metadata.topArtists :
                  /\ metadata.topArtists[i] \in artists
                  /\ \A j \in DOMAIN metadata.topArtists :
                        metadata.topArtists[i] = metadata.topArtists[j] => i = j
            /\ (years = {}) = (metadata.yearRange = <<"Various">>)
            /\ years # {} =>
                  /\ metadata.yearRange[1] \in years
                  /\ metadata.yearRange[3] \in years
                  /\ \A y \in years : metadata.yearRange[1] <= y
                                         /\ y <= metadata.yearRange[3]
            /\ metadata.artistDiversity =
                  <<ToFixed1(Q(100 * Cardinality(artists), Len(tracks))), "%">>
            /\ ~(req.spotifyUrl.some /\ req.spotifyUrl.s # <<>>) =>
                  /\ metadata.playlistName = "Manual Playlist"
                  /\ metadata.totalTracks = Len(tracks)

\* An answer with a playlistMetadata of its own, over six artists.
C24_Witness ==
    /\ IsPlaylist /\ resp.status = 200
    /\ ParseAnswer(req.ai).t = "object"
    /\ "playlistMetadata" \in DOMAIN ParseAnswer(req.ai).v
    /\ ParseAnswer(req.ai).v["playlistMetadata"].total = 7
    /\ resp.body.summary = <<"o", "k">>
    /\ resp.body.playlistMetadata.uniqueArtists = 6
    /\ Len(resp.body.playlistMetadata.topArtists) = 5
    /\ resp.body.playlistMetadata.yearRange = <<1992, " - ", 1996>>

\* The JSON inside a fence: the trimmed text without an opening fence, with
\* or without the tag json and its newline, and without the closing fence.
Unwrapped(text) ==
    LET s == Trim(text)
        opened == IF StartsWith(s, JsonFence)
                  THEN SubSeq(s, Len(JsonFence) + 1, Len(s))
                  ELSE IF StartsWith(s, Fence)
                  THEN SubSeq(s, Len(Fence) + 1, Len(s))
                  ELSE s
        closed == IF StartsWith(s, Fence) /\ EndsWith(opened, Fence)
                  THEN SubSeq(opened, 1, Len(opened) - Len(Fence))
                  ELSE opened
    IN  closed

\* C25: at POST /api/playlist/analyze and POST /api/recommend-songs an
\* answer that is valid JSON inside a Markdown fence, the opening fence with
\* or without a language tag and the closing fence with or without a
\* trailing newline, is unwrapped and parsed to the value of the bare JSON;
\* valid JSON without a fence is parsed as it is.
C25_FencedJsonUnwrapped ==
    (AnswerReceived /\ JsonParse(Unwrapped(req.ai.text)).ok) =>
        LET value == JsonParse(Unwrapped(req.ai.text))
        IN  /\ resp.status = 200
            /\ ParseAnswer(req.ai).ok
            /\ ParseAnswer(req.ai).t = value.t
            /\ IsRecommend => resp.body = value.v
            /\ (IsPlaylist /\ value.t = "object") =>
                  \A k \in DOMAIN value.v \ {"playlistMetadata"} :
                      /\ k \in DOMAIN resp.body
                      /\ resp.body[k] = value.v[k]

----------------------------------------------------------------------------
(* Concurrent deletes of one entry *)

IsDelete(h) == handlers[h].route = "DELETE /api/moods/:id"

\* The DELETE requests for entry n.
RequestsFor(n) ==
    {h \in DOMAIN handlers :
        /\ IsDelete(h)
        /\ handlers[h].input.id.kind = "objectid"
        /\ handlers[h].input.id.n = n}

\* Those that arrived while the entry was stored.
DeletesOf(n) == {h \in RequestsFor(n) : handlers[h].input.stored}

\* All of them have responded and no call to the store failed.
AllAnswered(H) ==
    \A h \in H :
        /\ handlers[h].awaiting = "none"
        /\ \A i \in DOMAIN handlers[h].log : handlers[h].log[i].ev # "fail"

\* C27: of two concurrent DELETE /api/moods/:id requests for the same
\* stored id, in any interleaving, exactly one answers 200 with the deleted
\* entry and the other answers 404; afterwards the entry is absent, and
\* every other entry is unchanged.
C27_ConcurrentDeletesOnce ==
    /\ [](\A n \in 1..(MaxDeleteEntries + 1) :
            (Cardinality(DeletesOf(n)) >= 2 /\ AllAnswered(RequestsFor(n))) =>
                /\ \E h \in RequestsFor(n) :
                      /\ handlers[h].status = 200
                      /\ handlers[h].body.entry.id = n
                      /\ \A g \in RequestsFor(n) \ {h} : handlers[g].status = 404
                /\ n \notin StoredIds)
    /\ [][\A h \in DOMAIN handlers :
            (/\ IsDelete(h)
             /\ handlers[h].awaiting = "store.findByIdAndDelete"
             /\ handlers'[h].awaiting = "none") =>
                /\ \A i \in DOMAIN store' : store'[i] \in Range(store)
                /\ \A e \in Range(store) :
                      (handlers[h].input.id.kind = "objectid"
                         => e.id # handlers[h].input.id.n)
                      => e \in Range(store')]_vars

\* Both requests for entry 1 arrived before either reached the store; the
\* second to arrive deleted it, and entry 2 is still stored.
C27_Witness ==
    /\ Len(handlers) = 2
    /\ DeletesOf(1) = {1, 2}
    /\ handlers[1].status = 404
    /\ handlers[2].status = 200
    /\ handlers[2].body.entry.id = 1
    /\ StoredIds = {2}

----------------------------------------------------------------------------
(* The MoodTracker component *)

\* The ids whose delete handler has started and not finished: its DELETE
\* request or the refresh after it is in flight.
DeletesInFlight ==
    {ui.tasks[t].arg :
        t \in {u \in DOMAIN ui.tasks :
                  ui.tasks[u].kind = "delete" /\ ui.tasks[u].phase # "done"}}

\* C28: an id is in deletingIds exactly while its own delete (the request
\* and the list refresh after it) is in flight; a delete that completes or
\* fails removes only its own id, and the set is empty when all have
\* finished.
C28_DeletingIdsExact ==
    /\ [](ui.mounted => ui.deletingIds = DeletesInFlight)
    /\ [][ui.mounted =>
            \A t \in DOMAIN ui.tasks :
                (/\ ui.tasks[t].kind = "delete"
                 /\ ui.tasks[t].phase # "done"
                 /\ ui'.tasks[t].phase = "done") =>
                    ui'.deletingIds = ui.deletingIds \ {ui.tasks[t].arg}]_vars

\* Two deletes were in flight together; one has finished (its DELETE
\* failed), the other still awaits its refresh.
C28_Witness ==
    /\ ui.mounted
    /\ Len(ui.tasks) = 3
    /\ ui.tasks[2].kind = "delete" /\ ui.tasks[2].phase = "done"
    /\ ~ui.tasks[2].ok
    /\ ui.tasks[3].kind = "delete" /\ ui.tasks[3].call = "getMoods"
    /\ ui.tasks[3].phase = "answered"
    /\ ui.deletingIds = {ui.tasks[3].arg}
    /\ ui.tasks[2].arg # ui.tasks[3].arg

\* Every handler of the component has finished.
AllFinished ==
    /\ ui.mounted
    /\ \A t \in DOMAIN ui.tasks : ui.tasks[t].phase = "done"

\* Every GET /api/moods of the component was answered with a list.
AllRefreshesAnswered ==
    \A t \in DOMAIN ui.tasks :
        ui.tasks[t].call = "getMoods" => ui.tasks[t].ok

\* C29: once every submit, delete and refresh of the component has
\* completed, the displayed moodEntries is the response to the GET
\* /api/moods that was issued last: a refresh response that arrives late
\* never overwrites a newer one.
C29_LatestRefreshDisplayed ==
    (AllFinished /\ AllRefreshesAnswered) =>
        \A t \in DOMAIN ui.tasks :
            ui.tasks[t].seq = ui.issued => ui.moodEntries = ui.tasks[t].body

----------------------------------------------------------------------------
(* The MoodJournal component *)

\* The stored entries that carry the mood and the note of the running submit.
SubmittedEntries ==
    { i \in 1..Len(store) : /\ store[i].mood = QInt(ui.submit.mood)
                            /\ store[i].note = Some(ui.submit.note) }

RecommendationPhases ==
    { "getSongRecommendations sent", "getSongRecommendations answered" }

\* handleSubmit reaches its catch block after the recommendations request.
RecommendationFailed ==
    /\ ui.submit.phase = "getSongRecommendations answered"
    /\ ui'.submit.phase = "idle"

\* C30: handleSubmit of MoodJournal creates the entry before it asks for
\* the recommendations, and the two are not atomic: while the
\* recommendations are requested the entry is already stored; when the
\* recommendations fail the entry stays stored, the note is not cleared and
\* the error is shown; every answered create, a resubmission included,
\* stores one more entry with the mood and the note of its submit; and
\* whenever no submit is running, submitting and loading are both false.
C30_CreateThenRecommendNotAtomic ==
    /\ [](ui.mounted =>
            /\ ui.submit.phase \in RecommendationPhases
                   => SubmittedEntries # {}
            /\ ui.submit.phase = "idle"
                   => ~ui.submitting /\ ~ui.loading)
    /\ [][ui.mounted =>
            /\ RecommendationFailed =>
                   /\ store' = store
                   /\ ui'.note = ui.note
                   /\ ui'.error # NoError
                   /\ ~ui'.submitting /\ ~ui'.loading
            /\ (ui.submit.phase = "createMood sent" /\ ui'.submit.ok) =>
                   /\ Len(store') = Len(store) + 1
                   /\ store'[Len(store')].mood = QInt(ui.submit.mood)
                   /\ store'[Len(store')].note = Some(ui.submit.note)
                   /\ SubSeq(store', 1, Len(store)) = store]_vars

\* Witness of C30: after a failed recommendation and a resubmission that
\* failed the same way, two entries with the same mood and note are stored,
\* the note is still in the form and neither flag is set.
C30_Witness ==
    /\ ui.mounted
    /\ ui.submit.phase = "idle"
    /\ ui.error = "Failed to save mood entry or get recommendations"
    /\ ui.note = <<"h", "i">>
    /\ ~ui.submitting /\ ~ui.loading
    /\ Len(store) = 2
    /\ store[1].mood = store[2].mood
    /\ store[1].note = Some(<<"h", "i">>)
    /\ store[2].note = Some(<<"h", "i">>)

====
